---- MODULE Spec2Model ----
(***************************************************************************)
(* Model of cpp_final_data_set_saver: the scaled-integer Decimal, the      *)
(* order-book state helpers and DataSetCalculator::calculateFinalDataSet.  *)
(*                                                                         *)
(* A Decimal is the pair [value, precision] of decimal.h: value is the     *)
(* int64 value_ and stands for value_ / 10^precision_.  The model keeps    *)
(* the representation and runs on magnitudes (a few units of 10^-16) for   *)
(* which no int64 operation of the code overflows.                         *)
(***************************************************************************)
EXTENDS Integers, Sequences, FiniteSets, TLC

\* ------------------------------------------------------------------ bounds
MaxEvents == 3
MaxTrades == 2
MaxEntries == 2

\* ------------------------------------------------------- program constants
DEFAULT_PRECISION == 16
MAX_PRECISION == 36

Snapshot == 1
Update == 2
BTC_USDT == 1
ETH_USDT == 2

Min(a, b) == IF a < b THEN a ELSE b
Max(a, b) == IF a > b THEN a ELSE b

\* ------------------------------------------------------------------ int64_t
\* value_ is an int64_t: a 64-bit two's-complement pattern, held as five limbs
\* (least significant first), four of LimbBits bits and a top one of TopBits.
\* Arithmetic wraps modulo 2^64, which is what the build computes on overflow.
LimbBase == 8192
TopBase == 4096
SignLimb == 2048

\* the pattern of a small integer n (sign-extended)
I64(n) ==
    LET n1 == n \div LimbBase
        n2 == n1 \div LimbBase
        n3 == n2 \div LimbBase
        n4 == n3 \div LimbBase
    IN  << n % LimbBase, n1 % LimbBase, n2 % LimbBase, n3 % LimbBase, n4 % TopBase >>

\* carry propagation over five column sums
Carry(c) ==
    LET t1 == c[1]
        t2 == c[2] + (t1 \div LimbBase)
        t3 == c[3] + (t2 \div LimbBase)
        t4 == c[4] + (t3 \div LimbBase)
        t5 == c[5] + (t4 \div LimbBase)
    IN  << t1 % LimbBase, t2 % LimbBase, t3 % LimbBase, t4 % LimbBase, t5 % TopBase >>

I64Add(a, b) == Carry(<< a[1] + b[1], a[2] + b[2], a[3] + b[3], a[4] + b[4], a[5] + b[5] >>)
I64Sub(a, b) == Carry(<< a[1] - b[1], a[2] - b[2], a[3] - b[3], a[4] - b[4], a[5] - b[5] >>)
I64Neg(a) == I64Sub(I64(0), a)
I64Mul(a, b) ==
    Carry(<< a[1]*b[1],
             a[1]*b[2] + a[2]*b[1],
             a[1]*b[3] + a[2]*b[2] + a[3]*b[1],
             a[1]*b[4] + a[2]*b[3] + a[3]*b[2] + a[4]*b[1],
             a[1]*b[5] + a[2]*b[4] + a[3]*b[3] + a[4]*b[2] + a[5]*b[1] >>)

I64IsZero(a) == a = I64(0)
I64IsNeg(a) == a[5] >= SignLimb
\* unsigned order of two patterns
RECURSIVE ULessFrom(_, _, _)
ULessFrom(a, b, k) ==
    IF k = 0 THEN FALSE
    ELSE IF a[k] # b[k] THEN a[k] < b[k]
    ELSE ULessFrom(a, b, k - 1)
ULess(a, b) == ULessFrom(a, b, 5)
\* signed order
I64Less(a, b) ==
    IF I64IsNeg(a) # I64IsNeg(b) THEN I64IsNeg(a) ELSE ULess(a, b)
I64Abs(a) == IF I64IsNeg(a) THEN I64Neg(a) ELSE a

\* bit i (0..63) of a pattern
Pow2(k) == 2^k
Bit(a, i) == (a[(i \div 13) + 1] \div Pow2(i % 13)) % 2

\* unsigned long division over bits hi down to lo, one bit per step; qr is
\* <<quotient, remainder>> so far
RECURSIVE DivSteps(_, _, _, _, _)
\* the step for bit hi: r2 is the remainder with that bit shifted in
DivBit(a, d, hi, lo, q, r2) ==
    IF ULess(r2, d)
    THEN DivSteps(a, d, hi - 1, lo, << I64Add(q, q), r2 >>)
    ELSE DivSteps(a, d, hi - 1, lo, << I64Add(I64Add(q, q), I64(1)), I64Sub(r2, d) >>)
DivSteps(a, d, hi, lo, qr) ==
    IF hi < lo THEN qr
    ELSE DivBit(a, d, hi, lo, qr[1], I64Add(I64Add(qr[2], qr[2]), I64(Bit(a, hi))))
\* no bit above this position is set (the top bit of the highest limb in use)
TopBit(a) ==
    IF a[5] # 0 THEN 63
    ELSE IF a[4] # 0 THEN 51
    ELSE IF a[3] # 0 THEN 38
    ELSE IF a[2] # 0 THEN 25
    ELSE 12
\* all bits from the top one down, at most sixteen at a time
DivFrom(a, d, hi) ==
    DivSteps(a, d, Min(hi, 15), 0,
        DivSteps(a, d, Min(hi, 31), 16,
            DivSteps(a, d, Min(hi, 47), 32,
                DivSteps(a, d, hi, 48, << I64(0), I64(0) >>))))
UDivMod(a, d) == DivFrom(a, d, TopBit(a))

\* a / b and a % b of C++: the quotient truncates toward zero and the
\* remainder has the sign of the dividend (b # 0)
I64Div(a, b) ==
    LET q == UDivMod(I64Abs(a), I64Abs(b))[1]
    IN  IF I64IsNeg(a) # I64IsNeg(b) THEN I64Neg(q) ELSE q
I64Rem(a, b) ==
    LET r == UDivMod(I64Abs(a), I64Abs(b))[2]
    IN  IF I64IsNeg(a) THEN I64Neg(r) ELSE r

\* the integer a small pattern stands for
ToInt(a) ==
    IF I64IsNeg(a)
    THEN -(I64Neg(a)[1] + LimbBase * I64Neg(a)[2])
    ELSE a[1] + LimbBase * a[2]

\* ----------------------------------------------------------------- Decimal
\* number of entries of the scaleFactors[] table of getScaleFactor
ScaleTableSize == 19

RECURSIVE Pow10(_)
Pow10(k) ==
    IF k = 0 THEN I64(1)
    ELSE IF k = 1 THEN I64(10)
    ELSE I64Mul(Pow10(k \div 2), Pow10(k - (k \div 2)))

\* static const int64_t scaleFactors[] = {1, 10, ..., 10^18}
scaleFactors == [k \in 0..(ScaleTableSize - 1) |-> Pow10(k)]

\* getScaleFactor's range check: the precisions that do not throw
ScaleFactorAccepted(precision) == precision >= 0 /\ precision <= MAX_PRECISION

\* getScaleFactor on an accepted precision: scaleFactors[precision]
getScaleFactor(precision) == scaleFactors[precision]

\* v * getScaleFactor(k) in int64 (getScaleFactor(0) is 1)
MulScale(v, k) == IF k = 0 THEN v ELSE I64Mul(v, getScaleFactor(k))

Dec(v, p) == [value |-> v, precision |-> p]

\* Decimal(int64_t val, precision = DEFAULT_PRECISION)
DecimalFromInt(val) == Dec(MulScale(val, DEFAULT_PRECISION), DEFAULT_PRECISION)

ZERO == DecimalFromInt(I64(0))

isZero(d) == I64IsZero(d.value)
isPositive(d) == I64Less(I64(0), d.value)
isNegative(d) == I64Less(d.value, I64(0))

\* {val1, val2}: both values at the larger of the two precisions
normalizePrecision(a, b) ==
    << MulScale(a.value, Max(a.precision, b.precision) - a.precision),
       MulScale(b.value, Max(a.precision, b.precision) - b.precision) >>

\* val1 + val2, val1 - val2, val1 == val2, val1 < val2 of a normalized pair
PairSum(n) == I64Add(n[1], n[2])
PairDiff(n) == I64Sub(n[1], n[2])
PairEq(n) == n[1] = n[2]
PairLess(n) == I64Less(n[1], n[2])

\* operator+ and operator+=
DecAdd(a, b) == Dec(PairSum(normalizePrecision(a, b)), Max(a.precision, b.precision))

\* operator- and operator-=
DecSub(a, b) == Dec(PairDiff(normalizePrecision(a, b)), Max(a.precision, b.precision))

\* operator*'s scale-down branch, taken above MAX_PRECISION
ScaleDown(resultValue, resultPrecision) ==
    IF resultPrecision > MAX_PRECISION
    THEN Dec(I64Div(resultValue, getScaleFactor(resultPrecision - MAX_PRECISION)),
             MAX_PRECISION)
    ELSE Dec(resultValue, resultPrecision)

\* operator* and operator*=
DecMul(a, b) == ScaleDown(I64Mul(a.value, b.value), a.precision + b.precision)

DecEq(a, b) == PairEq(normalizePrecision(a, b))
DecLess(a, b) == PairLess(normalizePrecision(a, b))
DecGreater(a, b) == PairLess(normalizePrecision(b, a))

\* ------------------------------------------------------------ parseString
\* A wire string is a sequence of one-character strings.
Digits == << "0", "1", "2", "3", "4", "5", "6", "7", "8", "9" >>
IsDigit(c) == \E d \in 1..10 : Digits[d] = c
DigitVal(c) == (CHOOSE d \in 1..10 : Digits[d] = c) - 1

RECURSIVE DigitsLoop(_)
\* result = result * 10 + (c - '0') over the characters still to read
DigitsLoop(st) ==
    IF st.rest = << >> THEN st.result
    ELSE DigitsLoop([rest |-> Tail(st.rest),
                     result |-> I64Add(I64Mul(st.result, I64(10)),
                                       I64(DigitVal(Head(st.rest))))])
DigitsValue(s, acc) == DigitsLoop([rest |-> s, result |-> acc])

\* str.find('.'): the first position of the point, 0 when there is none
FindPoint(str) ==
    IF \E i \in 1..Len(str) : str[i] = "."
    THEN CHOOSE i \in 1..Len(str) :
            str[i] = "." /\ \A j \in 1..(i - 1) : str[j] # "."
    ELSE 0

\* integerPart and fractionalPart as parseString cuts them at the point
IntegerText(str) ==
    IF FindPoint(str) = 0 THEN str ELSE SubSeq(str, 1, FindPoint(str) - 1)
FractionText(str) ==
    IF FindPoint(str) = 0 THEN << >> ELSE SubSeq(str, FindPoint(str) + 1, Len(str))
\* !integerPart.empty() && integerPart[0] == '-', and integerPart.substr(1)
IsNegativeText(text) == text # << >> /\ text[1] = "-"
UnsignedText(text) == IF IsNegativeText(text) THEN Tail(text) ELSE text
AllDigits(text) == \A i \in 1..Len(text) : IsDigit(text[i])
\* return negative ? -result : result
Signed(negative, magnitude) == IF negative THEN I64Neg(magnitude) ELSE magnitude

\* parseString on the parts: integerPart without its sign, the fractional
\* digits the loop reads (at most precision of them), fractionalPart.length()
ParseParts(negative, integerPart, used, fractionLen, precision) ==
    IF \/ ~AllDigits(integerPart)
       \/ ~ScaleFactorAccepted(precision)
       \/ ~AllDigits(used)
       \/ ~ScaleFactorAccepted(precision - fractionLen)
    THEN [ok |-> FALSE, value |-> I64(0)]
    ELSE [ok |-> TRUE,
          value |-> Signed(negative,
                       I64Add(MulScale(DigitsValue(integerPart, I64(0)), precision),
                              MulScale(DigitsValue(used, I64(0)),
                                       precision - fractionLen)))]
ParseCut(integerPart0, fractionalPart, precision) ==
    ParseParts(IsNegativeText(integerPart0), UnsignedText(integerPart0),
               SubSeq(fractionalPart, 1, Min(Len(fractionalPart), precision)),
               Len(fractionalPart), precision)

\* parseString: [ok |-> FALSE] models the invalid_argument exceptions
parseString(str, precision) ==
    IF str = << >> THEN [ok |-> FALSE, value |-> I64(0)]
    ELSE ParseCut(IntegerText(str), FractionText(str), precision)


RECURSIVE Zeros(_)
Zeros(n) == IF n = 0 THEN << >> ELSE << "0" >> \o Zeros(n - 1)

\* wire fields: "0", "0.0", 1e-16 (two spellings), 2e-16, -1e-16
W0 == << "0" >>
W00 == << "0", ".", "0" >>
W1 == << "0", "." >> \o Zeros(DEFAULT_PRECISION - 1) \o << "1" >>
W1b == << "." >> \o Zeros(DEFAULT_PRECISION - 1) \o << "1" >>
W2 == << "0", "." >> \o Zeros(DEFAULT_PRECISION - 1) \o << "2" >>
WNeg == << "-", "0", "." >> \o Zeros(DEFAULT_PRECISION - 1) \o << "1" >>

\* the prices and quantities of the unit test OrderBookStatisticsCalculation:
\* "50000.0", "50001.0", "50002.0" and "1.0", "2.0", "0.5"
P50000 == << "5", "0", "0", "0", "0", ".", "0" >>
P50001 == << "5", "0", "0", "0", "1", ".", "0" >>
P50002 == << "5", "0", "0", "0", "2", ".", "0" >>
Q1 == << "1", ".", "0" >>
Q2 == << "2", ".", "0" >>
QHalf == << "0", ".", "5" >>
StatPrices == {P50000, P50001, P50002}
StatQuantities == {Q1, Q2, QHalf, W0}

WireFields == {W0, W00, W1, W1b, W2, WNeg} \cup StatPrices \cup StatQuantities

\* parseString at the default precision, evaluated once per wire field
ParsedField == [w \in WireFields |-> parseString(w, DEFAULT_PRECISION)]
ParseDefault(str) ==
    IF str \in WireFields THEN ParsedField[str]
    ELSE parseString(str, DEFAULT_PRECISION)

\* Decimal::fromString(str) with the default precision
fromString(str) == Dec(ParseDefault(str).value, DEFAULT_PRECISION)
Parses(str) == ParseDefault(str).ok

\* ------------------------------------------- toString, division, stray reads
\* Decimal(const std::string& val, int32_t precision)
DecimalFromString(str, precision) == Dec(parseString(str, precision).value, precision)
DecimalParses(str, precision) ==
    ScaleFactorAccepted(precision) /\ parseString(str, precision).ok

\* getScaleFactor accepts precisions up to MAX_PRECISION but its table ends
\* at index ScaleTableSize - 1: above it the read leaves the array, and the
\* value obtained is whatever the build placed there (stray)
StrayValues == {I64(0), I64(1), I64Neg(I64(1000))}
ScaleRead(precision, stray) ==
    IF precision < ScaleTableSize THEN getScaleFactor(precision) ELSE stray

\* the values a read may yield in an operation on a and b: getScaleFactor
\* is only asked for precisions up to the larger of the two
StrayReads(a, b) ==
    IF Max(a.precision, b.precision) < ScaleTableSize THEN {I64(0)}
    ELSE StrayValues

\* normalizePrecision with the reads it makes
normalizePrecisionRead(a, b, stray) ==
    LET maxPrecision == Max(a.precision, b.precision)
    IN  << I64Mul(a.value, ScaleRead(maxPrecision - a.precision, stray)),
           I64Mul(b.value, ScaleRead(maxPrecision - b.precision, stray)) >>

\* the decimal rendering of an unsigned 64-bit value: five groups of four
\* digits (least significant first) of acc * LimbBase + limb
GroupStep(acc, limb) ==
    LET t1 == acc[1] * LimbBase + limb
        t2 == acc[2] * LimbBase + (t1 \div 10000)
        t3 == acc[3] * LimbBase + (t2 \div 10000)
        t4 == acc[4] * LimbBase + (t3 \div 10000)
        t5 == acc[5] * LimbBase + (t4 \div 10000)
    IN  << t1 % 10000, t2 % 10000, t3 % 10000, t4 % 10000,
           t5 % 10000 >>
Groups(u) ==
    GroupStep(GroupStep(GroupStep(GroupStep(<< u[5], 0, 0, 0, 0 >>, u[4]),
                                  u[3]), u[2]), u[1])
GroupText(g) ==
    << Digits[(g \div 1000) + 1], Digits[((g \div 100) % 10) + 1],
       Digits[((g \div 10) % 10) + 1], Digits[(g % 10) + 1] >>
UText(u) ==
    LET g == Groups(u)
        all == GroupText(g[5]) \o GroupText(g[4]) \o GroupText(g[3])
               \o GroupText(g[2]) \o GroupText(g[1])
        first == IF \E i \in 1..19 : all[i] # "0"
                 THEN CHOOSE i \in 1..19 :
                        all[i] # "0" /\ \A j \in 1..(i - 1) : all[j] = "0"
                 ELSE 20
    IN  SubSeq(all, first, 20)

\* oss << v for an int64_t
I64Text(v) == IF I64IsNeg(v) THEN << "-" >> \o UText(I64Neg(v)) ELSE UText(v)

\* std::setfill('0') << std::setw(width): a minimum width, never a cut
PadLeft(text, width) ==
    IF Len(text) >= width THEN text
    ELSE [i \in 1..(width - Len(text)) |-> "0"] \o text

\* toString() once the scale has been read (scale # 0)
toStringScaled(d, scale) ==
    IF d.precision = 0 THEN I64Text(d.value)
    ELSE I64Text(I64Div(d.value, scale)) \o << "." >>
         \o PadLeft(I64Text(I64Abs(I64Rem(d.value, scale))), d.precision)

toString(d) == toStringScaled(d, getScaleFactor(d.precision))

\* operator/ and operator/= fail on this test before anything else is done
DivisionByZero_NonZeroDividend(self, other) == isZero(other) /\ ~isZero(self)
DivisionByZero(self, other) == isZero(other)

\* the quotient of operator/ and operator/= (other is not zero, scale read)
DecQuotient(self, other, scale) ==
    Dec(I64Div(I64Mul(self.value, scale), other.value),
        Max(self.precision, other.precision))

\* ------------------------------------------------------- order-book state
\* std::map<Decimal, Decimal>: a function over its keys; two prices are the
\* same key when neither is less than the other.
EmptyMap == [k \in {} |-> ZERO]

SameKey(a, b) == ~DecLess(a, b) /\ ~DecLess(b, a)
MapHas(m, price) == \E k \in DOMAIN m : SameKey(k, price)
MapKey(m, price) == CHOOSE k \in DOMAIN m : SameKey(k, price)

\* m[price] = quantity
MapPut(m, price, quantity) ==
    IF MapHas(m, price)
    THEN [m EXCEPT ![MapKey(m, price)] = quantity]
    ELSE [k \in DOMAIN m \cup {price} |-> IF k = price THEN quantity ELSE m[k]]

\* m.erase(price)
MapErase(m, price) ==
    [k \in {x \in DOMAIN m : ~SameKey(x, price)} |-> m[k]]

isValidQuantity_NonZero(quantity) == ~isZero(quantity)

isValidQuantity(quantity) == ~isZero(quantity) /\ isPositive(quantity)

\* the body of initializeOrderBookState's loop for a parsed entry
InitializeEntry(m, price, quantity) ==
    IF isValidQuantity(quantity) THEN MapPut(m, price, quantity) ELSE m

RECURSIVE InitializeSide(_, _)
\* the loop of initializeOrderBookState over one side's entries
InitializeSide(m, entries) ==
    IF entries = << >> THEN m
    ELSE InitializeSide(IF Len(Head(entries)) >= 2
                        THEN InitializeEntry(m, fromString(Head(entries)[1]),
                                             fromString(Head(entries)[2]))
                        ELSE m,
                        Tail(entries))

\* the body of updateOrderBookState's loop for a parsed entry
UpdateEntry(m, price, quantity) ==
    IF isValidQuantity(quantity) THEN MapPut(m, price, quantity)
    ELSE MapErase(m, price)

RECURSIVE UpdateSide(_, _)
\* the loop of updateOrderBookState over one side's entries
UpdateSide(m, entries) ==
    IF entries = << >> THEN m
    ELSE UpdateSide(IF Len(Head(entries)) >= 2
                    THEN UpdateEntry(m, fromString(Head(entries)[1]),
                                     fromString(Head(entries)[2]))
                    ELSE m,
                    Tail(entries))

FreshState ==
    [ask_quantity_by_price |-> EmptyMap,
     bid_quantity_by_price |-> EmptyMap,
     initialized |-> FALSE]

initializeOrderBookState(state, snapshot) ==
    [ask_quantity_by_price |-> InitializeSide(EmptyMap, snapshot.asks),
     bid_quantity_by_price |-> InitializeSide(EmptyMap, snapshot.bids),
     initialized |-> TRUE]

updateOrderBookState_Replace(state, update) ==
    [state EXCEPT
        !.ask_quantity_by_price = UpdateSide(EmptyMap, update.asks),
        !.bid_quantity_by_price = UpdateSide(EmptyMap, update.bids)]

updateOrderBookState(state, update) ==
    [state EXCEPT
        !.ask_quantity_by_price = UpdateSide(@, update.asks),
        !.bid_quantity_by_price = UpdateSide(@, update.bids)]

\* every field of the event's entries that the helpers parse is a decimal
\* (fromString throws on anything else; the calls modelled pass decoded fields)
EntriesParse(entries) ==
    \A i \in 1..Len(entries) :
        Len(entries[i]) >= 2 => Parses(entries[i][1]) /\ Parses(entries[i][2])
EventParses(ev) == EntriesParse(ev.asks) /\ EntriesParse(ev.bids)

\* ---------------------------------------------------- order-book statistics
RECURSIVE SortedKeys(_)
\* the iteration order of the map: ascending keys
SortedKeys(S) ==
    IF S = {} THEN << >>
    ELSE LET k == CHOOSE x \in S : \A o \in S : ~DecLess(o, x)
         IN  << k >> \o SortedKeys(S \ {k})

ZeroStats ==
    [total_quantity |-> ZERO, total_volume |-> ZERO,
     max_price |-> ZERO, max_quantity |-> ZERO, max_volume |-> ZERO,
     min_price |-> ZERO, min_quantity |-> ZERO, min_volume |-> ZERO]

\* one pass of the loop body of calculateOrderBookStatistics
\* if (value > max) max = value; if (value < min) min = value
MaxOf(value, max) == IF DecGreater(value, max) THEN value ELSE max
MinOf(value, min) == IF DecLess(value, min) THEN value ELSE min

\* the extremes after one entry: set on the first, compared afterwards
StatsExtremes(stats, first, price, quantity, volume) ==
    IF first
    THEN [stats EXCEPT !.max_price = price, !.min_price = price,
                       !.max_quantity = quantity, !.min_quantity = quantity,
                       !.max_volume = volume, !.min_volume = volume]
    ELSE [stats EXCEPT
            !.max_price = MaxOf(price, @), !.min_price = MinOf(price, @),
            !.max_quantity = MaxOf(quantity, @), !.min_quantity = MinOf(quantity, @),
            !.max_volume = MaxOf(volume, @), !.min_volume = MinOf(volume, @)]

\* total_quantity += quantity; total_volume += volume
AddTotals(stats, quantity, volume) ==
    [stats EXCEPT !.total_quantity = DecAdd(@, quantity),
                  !.total_volume = DecAdd(@, volume)]

StatsStepOn(stats, first, price, quantity, volume) ==
    AddTotals(StatsExtremes(stats, first, price, quantity, volume), quantity, volume)

StatsStep(stats, first, price, quantity) ==
    StatsStepOn(stats, first, price, quantity, DecMul(price, quantity))

RECURSIVE StatsLoop(_, _, _, _)
StatsLoop(stats, first, keys, m) ==
    IF keys = << >> THEN stats
    ELSE StatsLoop(StatsStep(stats, first, Head(keys), m[Head(keys)]),
                   FALSE, Tail(keys), m)

calculateOrderBookStatistics(quantity_by_price) ==
    IF DOMAIN quantity_by_price = {} THEN ZeroStats
    ELSE StatsLoop(ZeroStats, TRUE, SortedKeys(DOMAIN quantity_by_price),
                   quantity_by_price)

\* one pass of the inline start-statistics loop of calculateFinalDataSet
\* the price and quantity extremes of the start statistics
StartExtremes(s, first, price, quantity) ==
    IF first
    THEN [s EXCEPT !.max_price = price, !.min_price = price,
                   !.max_quantity = quantity, !.min_quantity = quantity]
    ELSE [s EXCEPT
            !.max_price = MaxOf(price, @), !.min_price = MinOf(price, @),
            !.max_quantity = MaxOf(quantity, @), !.min_quantity = MinOf(quantity, @)]

\* the volume extremes of the start statistics: zero reads as "not set"
StartVolumes(s, volume) ==
    [s EXCEPT
       !.max_volume = IF isZero(@) \/ DecGreater(volume, @) THEN volume ELSE @,
       !.min_volume = IF isZero(@) \/ DecLess(volume, @) THEN volume ELSE @]

StartStepOn(s, first, price, quantity, volume) ==
    StartVolumes(AddTotals(StartExtremes(s, first, price, quantity), quantity, volume),
                 volume)

StartStep(s, first, price, quantity) ==
    StartStepOn(s, first, price, quantity, DecMul(price, quantity))

RECURSIVE StartLoop(_, _, _, _)
StartLoop(s, first, keys, m) ==
    IF keys = << >> THEN s
    ELSE StartLoop(StartStep(s, first, Head(keys), m[Head(keys)]),
                   FALSE, Tail(keys), m)

CaptureStart_EveryWindow(s, quantity_by_price) ==
    StartLoop(ZeroStats, TRUE, SortedKeys(DOMAIN quantity_by_price), quantity_by_price)

\* the start statistics of one side after one iteration's capture block
CaptureStart(s, quantity_by_price) ==
    IF isZero(s.total_volume)
    THEN StartLoop(s, TRUE, SortedKeys(DOMAIN quantity_by_price), quantity_by_price)
    ELSE s

\* --------------------------------------------------------- trade statistics
\* TradeStatistics as data_set_calculator.cpp uses it: every field starts at
\* zero, and zero is what the code reads as "not set yet".
ZeroTradeStats ==
    [buy_quantity |-> ZERO, buy_trades_count |-> 0, buy_volume |-> ZERO,
     close_price |-> ZERO, high_price |-> ZERO, low_price |-> ZERO,
     open_price |-> ZERO, start_trade_id |-> 0, end_trade_id |-> 0,
     start_timestamp_ms |-> 0, total_quantity |-> ZERO,
     total_trades_count |-> 0, total_volume |-> ZERO]

UpdateHigh_KeepFirst(high_price, price) ==
    IF isZero(high_price) THEN price ELSE high_price

\* if (high_price.isZero() || price > high_price) high_price = price
UpdateHigh(high_price, price) ==
    IF isZero(high_price) \/ DecGreater(price, high_price) THEN price ELSE high_price

\* if (low_price.isZero() || price < low_price) low_price = price
UpdateLow(low_price, price) ==
    IF isZero(low_price) \/ DecLess(price, low_price) THEN price ELSE low_price

\* the body of calculateTradeStatistics's loop for a trade inside the window
\* if (stats.start_trade_id == 0) { start_trade_id, start_timestamp_ms }
TradeStart(stats, trade) ==
    IF stats.start_trade_id = 0
    THEN [stats EXCEPT !.start_trade_id = trade.trade_id,
                       !.start_timestamp_ms = trade.timestamp_ms]
    ELSE stats

\* end_trade_id and the open, close, high and low prices
TradePrices(stats, trade) ==
    [stats EXCEPT
       !.end_trade_id = trade.trade_id,
       !.open_price = IF isZero(@) THEN trade.price ELSE @,
       !.close_price = trade.price,
       !.high_price = UpdateHigh(@, trade.price),
       !.low_price = UpdateLow(@, trade.price)]

\* if (trade.is_buy) { buy_quantity, buy_trades_count, buy_volume }
TradeBuys(stats, trade, trade_volume) ==
    IF trade.is_buy
    THEN [stats EXCEPT !.buy_quantity = DecAdd(@, trade.quantity),
                       !.buy_trades_count = @ + 1,
                       !.buy_volume = DecAdd(@, trade_volume)]
    ELSE stats

\* total_quantity, total_trades_count, total_volume
TradeTotals(stats, trade, trade_volume) ==
    [stats EXCEPT !.total_quantity = DecAdd(@, trade.quantity),
                  !.total_trades_count = @ + 1,
                  !.total_volume = DecAdd(@, trade_volume)]

TradeStepOn(stats, trade, trade_volume) ==
    TradeTotals(TradeBuys(TradePrices(TradeStart(stats, trade), trade),
                          trade, trade_volume),
                trade, trade_volume)

TradeStep(stats, trade) ==
    TradeStepOn(stats, trade, DecMul(trade.price, trade.quantity))

BeforeWindow_Never(trade, start_ts) == FALSE

\* trade.timestamp_ms < start_timestamp_ms: the trade is skipped
BeforeWindow(trade, start_ts) == trade.timestamp_ms < start_ts

AtOrAfterEnd_Strict(trade, end_ts) == trade.timestamp_ms > end_ts

\* trade.timestamp_ms >= end_timestamp_ms: the scan stops at this trade
AtOrAfterEnd(trade, end_ts) == trade.timestamp_ms >= end_ts

RECURSIVE TradeLoop(_, _, _, _, _, _, _)
\* the for loop from trade_idx (0-based); start_trade_idx is the caller's
\* cursor, written only on the break; counted collects the positions of the
\* trades that reached the loop body
TradeLoop(trades_, trade_idx, start_ts, end_ts, stats, cursor, counted) ==
    IF trade_idx >= Len(trades_)
    THEN [stats |-> stats, start_trade_idx |-> cursor, counted |-> counted]
    ELSE LET trade == trades_[trade_idx + 1]
         IN  IF BeforeWindow(trade, start_ts)
             THEN TradeLoop(trades_, trade_idx + 1, start_ts, end_ts,
                            stats, cursor, counted)
             ELSE IF AtOrAfterEnd(trade, end_ts)
             THEN [stats |-> stats, start_trade_idx |-> trade_idx,
                   counted |-> counted]
             ELSE TradeLoop(trades_, trade_idx + 1, start_ts, end_ts,
                            TradeStep(stats, trade), cursor,
                            counted \cup {trade_idx + 1})

calculateTradeStatistics(trades_, start_ts, end_ts, start_trade_idx_) ==
    TradeLoop(trades_, start_trade_idx_, start_ts, end_ts, ZeroTradeStats,
              start_trade_idx_, {})

\* ------------------------------------------------------------------ inputs
\* one side entry [price, quantity, "0", "0"] as the store delivers it
Entry(p, q) == << p, q, W0, W0 >>

\* the ask/bid payloads the calculator's events carry
Payloads ==
    << [asks |-> << Entry(W1, W2), Entry(W2, W1) >>, bids |-> << Entry(W2, W2) >>],
       [asks |-> << Entry(W1, W0) >>,
        bids |-> << Entry(W1b, W1), Entry(W2, WNeg) >>],
       [asks |-> << >>, bids |-> << >>],
       [asks |-> << Entry(W0, W1) >>, bids |-> << << W1 >> >>] >>

PayloadOf(k, i) == Payloads[((k + i) % Len(Payloads)) + 1]

MaxTs == MaxEvents

EventLists ==
    UNION { { [i \in 1..n |->
                 [timestamp_ms |-> ts[i], action_id |-> tags[i],
                  asks |-> PayloadOf(k, i).asks, bids |-> PayloadOf(k, i).bids]] :
              ts \in { t \in [1..n -> 1..MaxTs] :
                         \A i \in 1..(n - 1) : t[i] < t[i + 1] },
              tags \in [1..n -> {Snapshot, Update}],
              k \in 0..(Len(Payloads) - 1) } : n \in 0..MaxEvents }

\* price, quantity and direction of a trade, parsed with the default precision
TradeKinds ==
    { [price |-> fromString(W1), quantity |-> fromString(W1), is_buy |-> TRUE],
      [price |-> fromString(W2), quantity |-> fromString(W2), is_buy |-> FALSE],
      [price |-> fromString(W0), quantity |-> fromString(W2), is_buy |-> TRUE] }

\* trades sorted by timestamp, with increasing ids starting at 0 or 1
TradeLists ==
    UNION { { [i \in 1..m |->
                 [timestamp_ms |-> ts[i], trade_id |-> base + i - 1,
                  price |-> kinds[i].price, quantity |-> kinds[i].quantity,
                  is_buy |-> kinds[i].is_buy]] :
              ts \in { t \in [1..m -> 0..MaxTs] :
                         \A i \in 1..(m - 1) : t[i] <= t[i + 1] },
              kinds \in [1..m -> TradeKinds],
              base \in {0, 1} } : m \in 0..MaxTrades }

\* (symbol id, data_set_idx) pairs the driver passes
CallIds == { << BTC_USDT, 0 >>, << ETH_USDT, 1 >> }

\* ------------------------------------------------------------------- state
VARIABLES
    pc,                      \* idle / loop / returned / thrown / book
    symbol_id, data_set_idx, \* arguments of the call
    order_book_snapshots,    \* argument: the events
    trades,                  \* argument: the trades
    current_order_book_idx,  \* loop index
    order_book_state,        \* OrderBookState
    start_trade_idx,         \* the trade cursor
    record_idx,
    start_asks, start_bids,  \* the start_* / max_start_* / min_start_* locals
    start_timestamp_ms,
    records,                 \* the records vector
    window_trades,           \* per finished window: positions of the trades counted
    record_window,           \* per record: the window (0-based) that emitted it
    book_call,               \* pending call of an order-book helper
    book_stats,              \* a calculateOrderBookStatistics call and its result
    dec,                     \* two Decimal operands and the last operation on them
    db_records,              \* the keys of the rows of okx_data_set_record_data
    driver,                  \* MainLoop: should_stop_, the position in mainLoop, the log
    main_loop,               \* MainLoop: running_, should_stop_, main_thread_, its threads
    txn                      \* a DatabaseTransaction, its guard and the last call on it

vars == << pc, symbol_id, data_set_idx, order_book_snapshots, trades,
           current_order_book_idx, order_book_state, start_trade_idx,
           record_idx, start_asks, start_bids, start_timestamp_ms, records,
           window_trades, record_window, book_call, book_stats, dec, db_records, driver, main_loop, txn >>

\* the variables that belong to no call of the calculator
outside_vars == << book_stats, dec, db_records, driver, main_loop, txn >>

NoEvent == [timestamp_ms |-> 0, action_id |-> Update, asks |-> << >>, bids |-> << >>]
NoCall == [op |-> "none", arg |-> NoEvent]

NoStats == [op |-> "none", side |-> "asks", stats |-> ZeroStats]

\* no Decimal operation has been applied
NoOut ==
    [kind |-> "none", text |-> << >>, thrown |-> FALSE, value |-> ZERO,
     eq |-> FALSE, less |-> FALSE, greater |-> FALSE,
     dividend |-> ZERO, divisor |-> ZERO]
NoDec ==
    [left |-> [str |-> W0, precision |-> DEFAULT_PRECISION],
     right |-> [str |-> W0, precision |-> DEFAULT_PRECISION],
     ops |-> << >>, x |-> ZERO, y |-> ZERO, out |-> NoOut]

\* how many threads call start() and stop() on one MainLoop
MaxCallers == 2
Callers == 1..MaxCallers
\* how many threads the model lets start() launch in all
MaxWorkers == 3

\* MainLoop after its constructor: running_(false), should_stop_(false), a
\* default-constructed main_thread_ (0: not joinable), no worker thread; no
\* caller is inside start() or stop()
NewMainLoop ==
    [running |-> FALSE, should_stop |-> FALSE, main_thread |-> 0,
     workers |-> << >>, terminated |-> FALSE,
     callers |-> [c \in Callers |-> [at |-> "outside", launched |-> 0]]]

\* the driver before start(): nothing persisted by it, nothing processed
NoLast == [symbol |-> BTC_USDT, outcome |-> "none", data_set_idx |-> 0, records |-> 0, saved |-> 0]
NoDriver ==
    [pc |-> "loop", should_stop |-> FALSE, symbols |-> << >>, processed |-> << >>,
     cycles |-> 0, last |-> NoLast, save_errors |-> {}]

\* the prepared statements initializePreparedStatements() creates
CommonStatements ==
    {"get_last_final_dataset", "get_order_book_snapshots", "get_trades_between",
     "insert_final_dataset", "get_order_book_updates"}
NoTxnCall == [op |-> "none", active |-> TRUE, thrown |-> "none"]
\* DatabaseTransaction(connection): the pqxx::work is open, both flags false
NewTransaction ==
    [committed |-> FALSE, rolled_back |-> FALSE, work |-> "open",
     prepared_statements |-> CommonStatements, guard |-> "none", call |-> NoTxnCall]

\* no calculator call has started: a fresh DataSetCalculator and its locals
CalcIdle ==
    /\ symbol_id = BTC_USDT
    /\ data_set_idx = 0
    /\ order_book_snapshots = << >>
    /\ trades = << >>
    /\ current_order_book_idx = 0
    /\ order_book_state = FreshState
    /\ start_trade_idx = 0
    /\ record_idx = 0
    /\ start_asks = ZeroStats
    /\ start_bids = ZeroStats
    /\ start_timestamp_ms = 0
    /\ records = << >>
    /\ window_trades = << >>
    /\ record_window = << >>
    /\ book_call = NoCall

\* nothing outside the calculator has happened
OutsideIdle ==
    /\ book_stats = NoStats /\ dec = NoDec /\ db_records = << >>
    /\ driver = NoDriver /\ main_loop = NewMainLoop /\ txn = NewTransaction

Init == pc = "idle" /\ CalcIdle /\ OutsideIdle

\* ------------------------------------------------- calculateFinalDataSet
\* order_book_snapshots.size() < 2: the early return
TooFewEvents(events) == Len(events) < 2

FirstEventAccepted_Any(current) == TRUE
LaterEventAccepted_Never(current) == FALSE

\* the tag checks on current_order_book at the head of an iteration
FirstEventAccepted(current) == current.action_id = Snapshot
LaterEventAccepted(current) == current.action_id = Update

TagAccepted(state, current) ==
    IF ~state.initialized THEN FirstEventAccepted(current)
    ELSE LaterEventAccepted(current)

ShouldEmit_Always(trade_stats) == trade_stats.total_trades_count >= 0

\* trade_stats.total_trades_count > 0: a record is created
ShouldEmit(trade_stats) == trade_stats.total_trades_count > 0

WindowStartTimestamp_Current(start_ts_var, current_timestamp_ms) ==
    current_timestamp_ms

\* the value start_timestamp_ms has when the record is filled in
WindowStartTimestamp(start_ts_var, current_timestamp_ms) ==
    IF start_ts_var = 0 THEN current_timestamp_ms ELSE start_ts_var

NextRecordIdx_Skip(idx) == idx + 2

\* record_idx++
NextRecordIdx(idx) == idx + 1

\* OKXDataSetRecordData(symbol_id, data_set_idx, record_idx) and its fields
MakeRecord(sym, dsi, ridx, ts, end_asks, end_bids, s_asks, s_bids, start_ts, end_ts) ==
    [symbol_id |-> sym, data_set_idx |-> dsi, record_idx |-> ridx,
     buy_quantity |-> ts.buy_quantity,
     buy_trades_count |-> ts.buy_trades_count,
     buy_volume |-> ts.buy_volume,
     close_price |-> ts.close_price,
     end_asks |-> end_asks, end_bids |-> end_bids,
     end_timestamp_ms |-> end_ts,
     end_trade_id |-> ts.end_trade_id,
     high_price |-> ts.high_price,
     start_asks |-> s_asks, start_bids |-> s_bids,
     low_price |-> ts.low_price,
     open_price |-> ts.open_price,
     start_timestamp_ms |-> start_ts,
     start_trade_id |-> ts.start_trade_id,
     total_quantity |-> ts.total_quantity,
     total_trades_count |-> ts.total_trades_count,
     total_volume |-> ts.total_volume]

\* the call: arguments bound, locals constructed, the size check
Enter(sym, dsi, events, trs) ==
    /\ pc = "idle"
    /\ \A i \in 1..Len(events) : EventParses(events[i])
    /\ symbol_id' = sym
    /\ data_set_idx' = dsi
    /\ order_book_snapshots' = events
    /\ trades' = trs
    /\ pc' = IF TooFewEvents(events) THEN "returned" ELSE "loop"
    /\ current_order_book_idx' = 0
    /\ order_book_state' = FreshState
    /\ start_trade_idx' = 0
    /\ record_idx' = 0
    /\ start_asks' = ZeroStats
    /\ start_bids' = ZeroStats
    /\ start_timestamp_ms' = 0
    /\ records' = << >>
    /\ window_trades' = << >>
    /\ record_window' = << >>
    /\ UNCHANGED << book_call, outside_vars >>

StateAtIteration_Reinitialize(state, current) ==
    initializeOrderBookState(state, current)

StateAtIteration_NeverInitialize(state, current) == state

\* the book an iteration works on: initialized from the first event, kept
\* from the previous iteration afterwards
StateAtIteration(state, current) ==
    IF ~state.initialized
    THEN initializeOrderBookState(state, current)
    ELSE state

\* an iteration whose tag check throws: the locals are unwound, nothing returns
IterationThrows ==
    /\ pc = "loop"
    /\ current_order_book_idx < Len(order_book_snapshots) - 1
    /\ ~TagAccepted(order_book_state,
                    order_book_snapshots[current_order_book_idx + 1])
    /\ pc' = "thrown"
    /\ records' = << >>
    /\ UNCHANGED << symbol_id, data_set_idx, order_book_snapshots, trades,
                    current_order_book_idx, order_book_state, start_trade_idx,
                    record_idx, start_asks, start_bids, start_timestamp_ms,
                    window_trades, record_window, book_call, outside_vars >>

\* the end of the loop body: the statistics of the updated book, the record
\* (when the window has trades) and the values carried to the next pass
IterationEnd(current_idx, next_timestamp_ms, state2, s_asks, s_bids, res, start_ts) ==
    /\ order_book_state' = state2
    /\ start_asks' = s_asks
    /\ start_bids' = s_bids
    /\ start_trade_idx' = res.start_trade_idx
    /\ window_trades' = Append(window_trades, res.counted)
    /\ IF ShouldEmit(res.stats)
       THEN /\ records' = Append(records,
                   MakeRecord(symbol_id, data_set_idx, record_idx, res.stats,
                              calculateOrderBookStatistics(state2.ask_quantity_by_price),
                              calculateOrderBookStatistics(state2.bid_quantity_by_price),
                              s_asks, s_bids, start_ts, next_timestamp_ms))
            /\ record_idx' = NextRecordIdx(record_idx)
            /\ record_window' = Append(record_window, current_idx)
            /\ start_timestamp_ms' = 0
       ELSE /\ start_timestamp_ms' = start_ts
            /\ UNCHANGED << records, record_idx, record_window >>

\* the loop body on state1, the book this pass works on
IterationOn(current_order_book, next_order_book, state1) ==
    IterationEnd(current_order_book_idx, next_order_book.timestamp_ms,
                 updateOrderBookState(state1, next_order_book),
                 CaptureStart(start_asks, state1.ask_quantity_by_price),
                 CaptureStart(start_bids, state1.bid_quantity_by_price),
                 calculateTradeStatistics(trades, current_order_book.timestamp_ms,
                                          next_order_book.timestamp_ms,
                                          start_trade_idx),
                 WindowStartTimestamp(start_timestamp_ms,
                                      current_order_book.timestamp_ms))

\* one full pass of the loop body
Iteration ==
    /\ pc = "loop"
    /\ current_order_book_idx < Len(order_book_snapshots) - 1
    /\ TagAccepted(order_book_state,
                   order_book_snapshots[current_order_book_idx + 1])
    /\ IterationOn(order_book_snapshots[current_order_book_idx + 1],
                   order_book_snapshots[current_order_book_idx + 2],
                   StateAtIteration(order_book_state,
                                    order_book_snapshots[current_order_book_idx + 1]))
    /\ current_order_book_idx' = current_order_book_idx + 1
    /\ UNCHANGED << pc, symbol_id, data_set_idx, order_book_snapshots, trades,
                    book_call, outside_vars >>

\* the loop condition fails: return records
Return ==
    /\ pc = "loop"
    /\ current_order_book_idx >= Len(order_book_snapshots) - 1
    /\ pc' = "returned"
    /\ UNCHANGED << symbol_id, data_set_idx, order_book_snapshots, trades,
                    current_order_book_idx, order_book_state, start_trade_idx,
                    record_idx, start_asks, start_bids, start_timestamp_ms,
                    records, window_trades, record_window, book_call,
                    outside_vars >>

Next ==
    \/ /\ pc = "idle"
       /\ \E ids \in CallIds, events \in EventLists, trs \in TradeLists :
             Enter(ids[1], ids[2], events, trs)
    \/ IterationThrows
    \/ Iteration
    \/ Return

Spec == Init /\ [][Next]_vars

\* ------------------------------------------ the order-book helpers, alone
\* initializeOrderBookState and updateOrderBookState are public: SpecBook
\* calls them directly, in any order, on one OrderBookState.
BookEntries ==
    { Entry(W1, W1), Entry(W1b, W2), Entry(W1, W0), Entry(W2, W1),
      Entry(W2, WNeg), << W2 >> }

RECURSIVE EntryLists(_)
EntryLists(n) ==
    IF n = 0 THEN { << >> }
    ELSE LET shorter == EntryLists(n - 1)
         IN  shorter \cup { Append(l, e) : l \in shorter, e \in BookEntries }

BookEvents ==
    { [timestamp_ms |-> 1, action_id |-> Update, asks |-> a, bids |-> b] :
        a \in EntryLists(MaxEntries), b \in EntryLists(1) }

InitBook == pc = "book" /\ CalcIdle /\ OutsideIdle

BookUnchanged ==
    UNCHANGED << pc, symbol_id, data_set_idx, order_book_snapshots, trades,
                 current_order_book_idx, start_trade_idx, record_idx,
                 start_asks, start_bids, start_timestamp_ms, records,
                 window_trades, record_window, outside_vars >>

\* no helper call is pending or being returned from
BookIdle == book_call.op = "none"

\* a caller invokes one of the helpers with an event
BookCall(op, ev) ==
    /\ pc = "book"
    /\ BookIdle
    /\ EventParses(ev)
    /\ book_call' = [op |-> op, arg |-> ev]
    /\ UNCHANGED order_book_state
    /\ BookUnchanged

BookInitialize ==
    /\ pc = "book"
    /\ book_call.op = "initialize"
    /\ order_book_state' = initializeOrderBookState(order_book_state, book_call.arg)
    /\ book_call' = [book_call EXCEPT !.op = "initialized"]
    /\ BookUnchanged

BookUpdate ==
    /\ pc = "book"
    /\ book_call.op = "update"
    /\ order_book_state' = updateOrderBookState(order_book_state, book_call.arg)
    /\ book_call' = [book_call EXCEPT !.op = "updated"]
    /\ BookUnchanged

\* the helper returns to its caller
BookReturn ==
    /\ pc = "book"
    /\ book_call.op \in {"initialized", "updated"}
    /\ book_call' = NoCall
    /\ UNCHANGED order_book_state
    /\ BookUnchanged

NextBook ==
    \/ /\ BookIdle
       /\ \E op \in {"initialize", "update"}, ev \in BookEvents : BookCall(op, ev)
    \/ BookInitialize
    \/ BookUpdate
    \/ BookReturn

SpecBook == InitBook /\ [][NextBook]_vars

\* ------------------------------------------- replay and statistics calls
\* SpecStats: a caller replays one snapshot and then updates through the
\* helpers and asks calculateOrderBookStatistics for a side of the book.
StatEntries == { Entry(p, q) : p \in StatPrices, q \in StatQuantities }

RECURSIVE StatEntryLists(_)
StatEntryLists(n) ==
    IF n = 0 THEN { << >> }
    ELSE LET shorter == StatEntryLists(n - 1)
         IN  shorter \cup { Append(l, e) : l \in shorter, e \in StatEntries }

StatEvents ==
    { [timestamp_ms |-> 1, action_id |-> Update, asks |-> a, bids |-> << >>] :
        a \in StatEntryLists(MaxEntries) }

InitStats == pc = "stats" /\ CalcIdle /\ OutsideIdle

StatsUnchanged ==
    UNCHANGED << pc, symbol_id, data_set_idx, order_book_snapshots, trades,
                 current_order_book_idx, start_trade_idx, record_idx,
                 start_asks, start_bids, start_timestamp_ms, records,
                 window_trades, record_window, book_call, dec, db_records,
                 driver, main_loop, txn >>

SideMap(state, side) ==
    IF side = "asks" THEN state.ask_quantity_by_price
    ELSE state.bid_quantity_by_price

\* initializeOrderBookState(state, snapshot), the first call of a replay
StatsInitialize(ev) ==
    /\ pc = "stats"
    /\ book_stats.op = "none"
    /\ ~order_book_state.initialized
    /\ EventParses(ev)
    /\ order_book_state' = initializeOrderBookState(order_book_state, ev)
    /\ UNCHANGED book_stats
    /\ StatsUnchanged

\* updateOrderBookState(state, update), any number of times afterwards
StatsUpdate(ev) ==
    /\ pc = "stats"
    /\ book_stats.op = "none"
    /\ order_book_state.initialized
    /\ EventParses(ev)
    /\ order_book_state' = updateOrderBookState(order_book_state, ev)
    /\ UNCHANGED book_stats
    /\ StatsUnchanged

\* calculateOrderBookStatistics(quantity_by_price) on one side of the book
StatsCalculate(side) ==
    /\ pc = "stats"
    /\ book_stats.op = "none"
    /\ order_book_state.initialized
    /\ book_stats' = [op |-> "calculated", side |-> side,
                      stats |-> calculateOrderBookStatistics(
                                    SideMap(order_book_state, side))]
    /\ UNCHANGED order_book_state
    /\ StatsUnchanged

\* the caller drops the result
StatsReturn ==
    /\ pc = "stats"
    /\ book_stats.op = "calculated"
    /\ book_stats' = NoStats
    /\ UNCHANGED order_book_state
    /\ StatsUnchanged

NextStats ==
    \/ \E ev \in StatEvents : StatsInitialize(ev)
    \/ \E ev \in StatEvents : StatsUpdate(ev)
    \/ \E side \in {"asks", "bids"} : StatsCalculate(side)
    \/ StatsReturn

SpecStats == InitStats /\ [][NextStats]_vars

\* ------------------------------------------------------------------------
\* Decimal on its own: two operands are parsed, the left one is combined
\* with the right one a bounded number of times, and the result is
\* formatted, compared or divided.
MaxOps == 2

D05 == << "0", ".", "5" >>
D1 == << "1" >>
D15 == << "1", ".", "5" >>
D25 == << "2", ".", "5" >>
D40 == << "4", ".", "0" >>
D4 == << "4" >>
DecStrings == {W0, W00, D05, D1, D15, D25, D40, D4}
DecPrecisions == {0, DEFAULT_PRECISION}
DecOps == {"+", "-", "*", "/"}

DecInputs ==
    { in \in [str : DecStrings, precision : DecPrecisions] :
        DecimalParses(in.str, in.precision) }

InitDecimal ==
    /\ pc = "decimal"
    /\ CalcIdle
    /\ book_stats = NoStats
    /\ db_records = << >>
    /\ driver = NoDriver
    /\ main_loop = NewMainLoop
    /\ txn = NewTransaction
    /\ \E a \in DecInputs, b \in DecInputs :
         dec = [left |-> a, right |-> b, ops |-> << >>,
                x |-> DecimalFromString(a.str, a.precision),
                y |-> DecimalFromString(b.str, b.precision),
                out |-> NoOut]

DecimalUnchanged ==
    UNCHANGED << pc, symbol_id, data_set_idx, order_book_snapshots, trades,
                 current_order_book_idx, order_book_state, start_trade_idx,
                 record_idx, start_asks, start_bids, start_timestamp_ms,
                 records, window_trades, record_window, book_call, book_stats,
                 db_records, driver, main_loop, txn >>

\* x op= y for +, - and * (operator+=, operator-=, operator*=)
DecApply(op, a, b, stray) ==
    LET n == normalizePrecisionRead(a, b, stray)
        inTable == Max(a.precision, b.precision) - Min(a.precision, b.precision)
                       < ScaleTableSize
    IN  IF op = "*" THEN DecMul(a, b)
        ELSE IF op = "+"
        THEN (IF inTable THEN DecAdd(a, b)
              ELSE Dec(I64Add(n[1], n[2]), Max(a.precision, b.precision)))
        ELSE (IF inTable THEN DecSub(a, b)
              ELSE Dec(I64Sub(n[1], n[2]), Max(a.precision, b.precision)))

DecCombine(op, stray) ==
    /\ pc = "decimal"
    /\ dec.out.kind = "none"
    /\ Len(dec.ops) < MaxOps
    /\ dec' = [dec EXCEPT !.x = DecApply(op, dec.x, dec.y, stray),
                          !.ops = Append(@, op)]
    /\ DecimalUnchanged

\* Decimal::fromString(x.toString()) == x
DecFormat(stray) ==
    /\ pc = "decimal"
    /\ dec.out.kind = "none"
    /\ LET scale == ScaleRead(dec.x.precision, stray)
           text == toStringScaled(dec.x, scale)
           back == fromString(text)
           n == normalizePrecisionRead(back, dec.x, stray)
       IN  dec' = [dec EXCEPT !.out =
                    IF dec.x.precision # 0 /\ I64IsZero(scale)
                    THEN [NoOut EXCEPT !.kind = "crashed"]
                    ELSE IF ~Parses(text)
                    THEN [NoOut EXCEPT !.kind = "text", !.text = text,
                                       !.thrown = TRUE]
                    ELSE [NoOut EXCEPT !.kind = "text", !.text = text,
                                       !.value = back, !.eq = (n[1] = n[2])]]
    /\ DecimalUnchanged

\* x == y, x < y and x > y
DecCompare(stray) ==
    /\ pc = "decimal"
    /\ dec.out.kind = "none"
    /\ LET n == normalizePrecisionRead(dec.x, dec.y, stray)
       IN  dec' = [dec EXCEPT !.out =
                    [NoOut EXCEPT !.kind = "compare",
                                  !.eq = (n[1] = n[2]),
                                  !.less = I64Less(n[1], n[2]),
                                  !.greater = I64Less(n[2], n[1])]]
    /\ DecimalUnchanged

\* x / y: a new Decimal or the runtime_error
DecDivide(stray) ==
    /\ pc = "decimal"
    /\ dec.out.kind = "none"
    /\ LET scale == ScaleRead(Max(dec.x.precision, dec.y.precision), stray)
       IN  dec' = [dec EXCEPT !.out =
                    IF DivisionByZero(dec.x, dec.y)
                    THEN [NoOut EXCEPT !.kind = "quotient", !.thrown = TRUE,
                                       !.dividend = dec.x, !.divisor = dec.y]
                    ELSE [NoOut EXCEPT !.kind = "quotient",
                                       !.value = DecQuotient(dec.x, dec.y, scale),
                                       !.dividend = dec.x, !.divisor = dec.y]]
    /\ DecimalUnchanged

\* x /= y: x takes the quotient, or the runtime_error leaves it alone
DecDivideAssign(stray) ==
    /\ pc = "decimal"
    /\ dec.out.kind = "none"
    /\ Len(dec.ops) < MaxOps
    /\ LET scale == ScaleRead(Max(dec.x.precision, dec.y.precision), stray)
       IN  dec' = IF DivisionByZero(dec.x, dec.y)
                  THEN [dec EXCEPT !.out =
                          [NoOut EXCEPT !.kind = "assigned", !.thrown = TRUE,
                                        !.dividend = dec.x, !.divisor = dec.y]]
                  ELSE [dec EXCEPT !.x = DecQuotient(dec.x, dec.y, scale),
                                   !.ops = Append(@, "/"),
                                   !.out =
                          [NoOut EXCEPT !.kind = "assigned",
                                        !.value = DecQuotient(dec.x, dec.y, scale),
                                        !.dividend = dec.x, !.divisor = dec.y]]
    /\ DecimalUnchanged

\* the caller drops the result
DecReturn ==
    /\ pc = "decimal"
    /\ dec.out.kind # "none"
    /\ dec.out.kind # "crashed"
    /\ dec' = [dec EXCEPT !.out = NoOut]
    /\ DecimalUnchanged

NextDecimal ==
    \/ \E op \in DecOps \ {"/"}, stray \in StrayReads(dec.x, dec.y) :
          DecCombine(op, stray)
    \/ \E stray \in StrayReads(dec.x, dec.y) : DecFormat(stray)
    \/ \E stray \in StrayReads(dec.x, dec.y) : DecCompare(stray)
    \/ \E stray \in StrayReads(dec.x, dec.y) : DecDivide(stray)
    \/ \E stray \in StrayReads(dec.x, dec.y) : DecDivideAssign(stray)
    \/ DecReturn

SpecDecimal == InitDecimal /\ [][NextDecimal]_vars

\* ================================================================== claims
NumEvents == Len(order_book_snapshots)
\* windows are numbered from 0: window i is [events[i].ts, events[i+1].ts)
Windows == 0..(NumEvents - 2)
WindowStart(i) == order_book_snapshots[i + 1].timestamp_ms
WindowEnd(i) == order_book_snapshots[i + 2].timestamp_ms
InWindow(i, j) ==
    WindowStart(i) <= trades[j].timestamp_ms /\ trades[j].timestamp_ms < WindowEnd(i)
WindowTradeSet(i) == { j \in 1..Len(trades) : InWindow(i, j) }
WindowsWithTrades == { i \in Windows : WindowTradeSet(i) # {} }
\* the windows the loop has finished
FinishedWindows == { i \in Windows : i < current_order_book_idx }
Running == pc \in {"loop", "returned"}
\* the tag check the loop makes on event i (0-based) fails
TagViolationAt(i) ==
    IF i = 0 THEN order_book_snapshots[1].action_id # Snapshot
    ELSE order_book_snapshots[i + 1].action_id # Update

\* C1: one record for every finished window that contains a trade and none for
\* a window without trades: the records emitted so far are exactly those of
\* the finished windows holding a trade (all windows once the call has
\* returned), and every record has total_trades_count >= 1.
C1_OneRecordPerTradedWindow ==
    Running =>
        /\ Len(records) = Cardinality(WindowsWithTrades \cap FinishedWindows)
        /\ Len(record_window) = Len(records)
        /\ { record_window[k] : k \in 1..Len(records) }
              = WindowsWithTrades \cap FinishedWindows
        /\ \A k \in 1..Len(records) : records[k].total_trades_count >= 1
        /\ pc = "returned" =>
              Len(records) = Cardinality(WindowsWithTrades)

\* C1 witness: a returned call over two windows, one with a trade, one without
C1_Witness ==
    /\ pc = "returned"
    /\ NumEvents = 3
    /\ Len(records) = 1
    /\ Cardinality(WindowsWithTrades) = 1

\* C2: the k-th record (from 0) has record_idx = k and carries the caller's
\* symbol id and data_set_idx; record_idx equals the number of records emitted.
C2_RecordIdxSequential ==
    /\ \A k \in 1..Len(records) :
          /\ records[k].record_idx = k - 1
          /\ records[k].symbol_id = symbol_id
          /\ records[k].data_set_idx = data_set_idx
    /\ Running => record_idx = Len(records)

\* C2 witness: the first window emitted nothing, the second emitted record 0
C2_Witness ==
    /\ pc = "returned"
    /\ Len(records) = 1
    /\ record_window[1] = 1
    /\ records[1].record_idx = 0
    /\ records[1].symbol_id = ETH_USDT
    /\ records[1].data_set_idx = 1

\* C3: for sorted trades and strictly increasing event timestamps the trades
\* counted for window i are exactly those with
\* events[i].ts <= ts < events[i+1].ts; so no trade is counted twice, trades
\* outside the events' span are counted nowhere, and the only error is a tag
\* check failing.
C3_HalfOpenWindows ==
    /\ Running =>
          /\ Len(window_trades) = Cardinality(FinishedWindows)
          /\ \A i \in FinishedWindows : window_trades[i + 1] = WindowTradeSet(i)
          /\ \A k \in 1..Len(records) :
                records[k].total_trades_count
                   = Cardinality(WindowTradeSet(record_window[k]))
          /\ \A i1, i2 \in FinishedWindows :
                i1 # i2 => window_trades[i1 + 1] \cap window_trades[i2 + 1] = {}
          /\ \A j \in 1..Len(trades) :
                (/\ NumEvents >= 2
                 /\ \/ trades[j].timestamp_ms < order_book_snapshots[1].timestamp_ms
                    \/ trades[j].timestamp_ms
                          >= order_book_snapshots[NumEvents].timestamp_ms)
                => \A i \in FinishedWindows : j \notin window_trades[i + 1]
    /\ pc = "thrown" => TagViolationAt(current_order_book_idx)

\* C3 witness: a trade exactly on the boundary between two windows is counted
\* in the later one, next to a trade before the first event
C3_Witness ==
    /\ pc = "returned"
    /\ NumEvents = 3
    /\ Len(trades) = 2
    /\ trades[1].timestamp_ms < order_book_snapshots[1].timestamp_ms
    /\ trades[2].timestamp_ms = order_book_snapshots[2].timestamp_ms
    /\ window_trades = << {}, {2} >>

\* C4 as stated: whenever the first supplied event is not a Snapshot, the call
\* does not return records.
C4_FailsWheneverFirstNotSnapshot ==
    (NumEvents >= 1 /\ order_book_snapshots[1].action_id # Snapshot)
        => pc # "returned"

\* C4 amended: with at least two events and a first event that is not a
\* Snapshot the call never gets past the first tag check and never returns
\* (the check throws); with fewer than two events it returns an empty list
\* whatever the tag.
C4_FailsOnFirstNotSnapshotOfTwo ==
    /\ (NumEvents >= 2 /\ order_book_snapshots[1].action_id # Snapshot)
          => /\ pc \in {"loop", "thrown"}
             /\ current_order_book_idx = 0
             /\ records = << >>
             /\ pc = "loop" =>
                   ~TagAccepted(order_book_state, order_book_snapshots[1])
    /\ (NumEvents = 1 /\ order_book_snapshots[1].action_id # Snapshot)
          => pc = "returned" /\ records = << >>

\* C4 witness: the call has thrown on a first event tagged Update
C4_Witness ==
    /\ pc = "thrown"
    /\ NumEvents >= 2
    /\ order_book_snapshots[1].action_id = Update
    /\ Len(trades) >= 1

\* C5 as stated: a Snapshot at any position after the first, the last one
\* included, makes the call fail, and a failed call returns no records.
C5_FailsOnAnyLaterSnapshot ==
    /\ (NumEvents >= 2
        /\ \E i \in 2..NumEvents : order_book_snapshots[i].action_id = Snapshot)
          => pc # "returned"
    /\ pc = "thrown" => records = << >>

\* C6: supply conditions are not errors: fewer than two events return an empty
\* list at once; a call throws only on a failed tag check; and a call that
\* returns with no window containing a trade (no trades at all included)
\* returns an empty list.
C6_SupplyConditionsNotErrors ==
    /\ (pc # "idle" /\ NumEvents < 2) => (pc = "returned" /\ records = << >>)
    /\ pc = "thrown" => TagViolationAt(current_order_book_idx)
    /\ (Running /\ \A i \in FinishedWindows : ~TagViolationAt(i)
                /\ WindowsWithTrades = {})
          => records = << >>

\* C6 witness: three well-tagged events, trades outside every window, an empty
\* result
C6_Witness ==
    /\ pc = "returned"
    /\ NumEvents = 3
    /\ Len(trades) >= 1
    /\ WindowsWithTrades = {}
    /\ records = << >>

SetMin(S) == CHOOSE x \in S : \A y \in S : x <= y
SetMax(S) == CHOOSE x \in S : \A y \in S : x >= y
\* the trades of the window that emitted record k, as positions in trades
RecordTrades(k) == WindowTradeSet(record_window[k])
FirstTrade(k) == trades[SetMin(RecordTrades(k))]
LastTrade(k) == trades[SetMax(RecordTrades(k))]
PriceValues(k) == { ToInt(trades[j].price.value) : j \in RecordTrades(k) }

\* C7: for a window whose trades have positive prices and ids >= 1, open and
\* close are the prices of its first and last trade, high and low the maximum
\* and minimum price, start/end trade id those of the first and last trade;
\* hence low <= open, close <= high and start_trade_id <= end_trade_id.
C7_TradeOhlc ==
    \A k \in 1..Len(records) :
        (\A j \in RecordTrades(k) :
            isPositive(trades[j].price) /\ trades[j].trade_id >= 1)
        => /\ records[k].open_price = FirstTrade(k).price
           /\ records[k].close_price = LastTrade(k).price
           /\ records[k].high_price
                 = Dec(I64(SetMax(PriceValues(k))), DEFAULT_PRECISION)
           /\ records[k].low_price
                 = Dec(I64(SetMin(PriceValues(k))), DEFAULT_PRECISION)
           /\ records[k].start_trade_id = FirstTrade(k).trade_id
           /\ records[k].end_trade_id = LastTrade(k).trade_id
           /\ ~DecGreater(records[k].low_price, records[k].open_price)
           /\ ~DecGreater(records[k].low_price, records[k].close_price)
           /\ ~DecGreater(records[k].open_price, records[k].high_price)
           /\ ~DecGreater(records[k].close_price, records[k].high_price)
           /\ records[k].start_trade_id <= records[k].end_trade_id

\* C7 witness: a record over two trades, the first cheaper than the second
C7_Witness ==
    /\ pc = "returned"
    /\ Len(records) = 1
    /\ records[1].total_trades_count = 2
    /\ DecLess(records[1].open_price, records[1].close_price)
    /\ records[1].low_price = records[1].open_price
    /\ records[1].high_price = records[1].close_price
    /\ records[1].start_trade_id = 1
    /\ records[1].end_trade_id = 2

RECURSIVE SumQuantity(_)
\* sum of quantity value_ over a set of trade positions
SumQuantity(S) ==
    IF S = {} THEN 0
    ELSE LET j == CHOOSE x \in S : TRUE
         IN  ToInt(trades[j].quantity.value) + SumQuantity(S \ {j})

RECURSIVE SumVolume(_)
\* sum of price value_ * quantity value_ over a set of trade positions
SumVolume(S) ==
    IF S = {} THEN 0
    ELSE LET j == CHOOSE x \in S : TRUE
         IN  ToInt(trades[j].price.value) * ToInt(trades[j].quantity.value) + SumVolume(S \ {j})

BuyTrades(k) == { j \in RecordTrades(k) : trades[j].is_buy }

C9_StartIsFirstTradeTimestamp ==
    \A k \in 1..Len(records) :
        records[k].start_timestamp_ms = FirstTrade(k).timestamp_ms

\* the prices an update lists on one side
ListedAt(entries) == { i \in 1..Len(entries) : Len(entries[i]) >= 2 }
Lists(entries, price) ==
    \E i \in ListedAt(entries) : DecEq(fromString(entries[i][1]), price)
LastListedQuantity(entries, price) ==
    LET last == SetMax({ i \in ListedAt(entries) :
                           DecEq(fromString(entries[i][1]), price) })
    IN  fromString(entries[last][2])

\* what updateOrderBookState must leave of one side
SideFrame(before, after, entries) ==
    \A price \in DOMAIN before \cup DOMAIN after
                 \cup { fromString(entries[i][1]) : i \in ListedAt(entries) } :
        IF Lists(entries, price)
        THEN IF isPositive(LastListedQuantity(entries, price))
             THEN /\ MapHas(after, price)
                  /\ DecEq(after[MapKey(after, price)],
                           LastListedQuantity(entries, price))
             ELSE ~MapHas(after, price)
        ELSE /\ MapHas(before, price) <=> MapHas(after, price)
             /\ MapHas(before, price) =>
                   after[MapKey(after, price)] = before[MapKey(before, price)]

\* C10: updateOrderBookState changes exactly the listed prices of each side:
\* a listed price maps to its last listed quantity when that is > 0 and is
\* absent otherwise; unlisted prices and the other side's listing do not
\* matter to a side, and the initialized flag is untouched.
C10_UpdateFrame ==
    [][(book_call.op = "update" /\ book_call'.op = "updated")
         => /\ SideFrame(order_book_state.ask_quantity_by_price,
                         order_book_state'.ask_quantity_by_price,
                         book_call.arg.asks)
            /\ SideFrame(order_book_state.bid_quantity_by_price,
                         order_book_state'.bid_quantity_by_price,
                         book_call.arg.bids)
            /\ order_book_state'.initialized = order_book_state.initialized]_vars

\* C10 witness: an update that removed the ask at 1e-16 and named no bid has
\* run on a book that keeps its ask at 2e-16 and its bid
C10_Witness ==
    /\ book_call.op = "updated"
    /\ book_call.arg.asks = << Entry(W1, W0) >>
    /\ book_call.arg.bids = << >>
    /\ DOMAIN order_book_state.ask_quantity_by_price = { fromString(W2) }
    /\ DOMAIN order_book_state.bid_quantity_by_price = { fromString(W1) }

\* ---------------------------------------------------------------- C11
SideMaps ==
    { order_book_state.ask_quantity_by_price,
      order_book_state.bid_quantity_by_price }

\* C11: whatever helper calls have run, neither side of the book holds a level
\* whose quantity is zero or negative.
C11_NoNonPositiveLevel ==
    \A m \in SideMaps : \A price \in DOMAIN m : isPositive(m[price])

\* C11 witness: an update that listed a negative ask quantity and a zero bid
\* quantity has run and the book still holds levels on both sides
C11_Witness ==
    /\ book_call.op = "updated"
    /\ \E i \in ListedAt(book_call.arg.asks) :
          isNegative(fromString(book_call.arg.asks[i][2]))
    /\ \E i \in ListedAt(book_call.arg.bids) :
          isZero(fromString(book_call.arg.bids[i][2]))
    /\ order_book_state.initialized
    /\ DOMAIN order_book_state.ask_quantity_by_price # {}
    /\ DOMAIN order_book_state.bid_quantity_by_price # {}

\* ------------------------------------------------------------ C12, C13
\* Exact integers for the claims about sums and products: a non-negative
\* integer below 2^130 as ten limbs, least significant first.
WideOf(a) == a \o << 0, 0, 0, 0, 0 >>
WideCarry(c) ==
    LET t1 == c[1]
        t2 == c[2] + (t1 \div LimbBase)
        t3 == c[3] + (t2 \div LimbBase)
        t4 == c[4] + (t3 \div LimbBase)
        t5 == c[5] + (t4 \div LimbBase)
        t6 == c[6] + (t5 \div LimbBase)
        t7 == c[7] + (t6 \div LimbBase)
        t8 == c[8] + (t7 \div LimbBase)
        t9 == c[9] + (t8 \div LimbBase)
        t10 == c[10] + (t9 \div LimbBase)
    IN  << t1 % LimbBase, t2 % LimbBase, t3 % LimbBase, t4 % LimbBase,
           t5 % LimbBase, t6 % LimbBase, t7 % LimbBase, t8 % LimbBase,
           t9 % LimbBase, t10 >>
WideAdd(x, y) == WideCarry([k \in 1..10 |-> x[k] + y[k]])
WideTerm(a, b, i, k) == IF (k + 1 - i) \in 1..5 THEN a[i] * b[k + 1 - i] ELSE 0
\* the exact product of two non-negative int64 values
WideMul(a, b) ==
    WideCarry([k \in 1..10 |->
                 WideTerm(a, b, 1, k) + WideTerm(a, b, 2, k) + WideTerm(a, b, 3, k)
                 + WideTerm(a, b, 4, k) + WideTerm(a, b, 5, k)])
RECURSIVE WideLessFrom(_, _, _)
WideLessFrom(x, y, k) ==
    IF k = 0 THEN FALSE
    ELSE IF x[k] # y[k] THEN x[k] < y[k]
    ELSE WideLessFrom(x, y, k - 1)
WideLess(x, y) == WideLessFrom(x, y, 10)

\* the value of a Decimal field when it is not negative, as an exact integer
\* in units of 10^-precision
Holds(d, precision, exact) ==
    /\ d.precision = precision
    /\ ~I64IsNeg(d.value)
    /\ WideOf(d.value) = exact

\* the exact quantity and the exact price*quantity of the level at a price
TrueQuantity(m, price) == WideOf(m[price].value)
TrueVolume(m, price) == WideMul(price.value, m[price].value)
RECURSIVE SumTrueQuantity(_, _)
SumTrueQuantity(m, S) ==
    IF S = {} THEN WideOf(I64(0))
    ELSE LET k == CHOOSE x \in S : TRUE
         IN  WideAdd(TrueQuantity(m, k), SumTrueQuantity(m, S \ {k}))
RECURSIVE SumTrueVolume(_, _)
SumTrueVolume(m, S) ==
    IF S = {} THEN WideOf(I64(0))
    ELSE LET k == CHOOSE x \in S : TRUE
         IN  WideAdd(TrueVolume(m, k), SumTrueVolume(m, S \ {k}))

\* the map a statistics call was made on, and what it returned
StatsMap == SideMap(order_book_state, book_stats.side)
StatsResult == book_stats.stats

\* C12 as stated: for a replayed side, total_quantity is the sum of the
\* quantities of the levels in the map and total_volume the sum of their
\* price*quantity.
C12_TotalsAreSums ==
    (book_stats.op = "calculated" /\ DOMAIN StatsMap # {})
        => /\ Holds(StatsResult.total_quantity, DEFAULT_PRECISION,
                    SumTrueQuantity(StatsMap, DOMAIN StatsMap))
           /\ Holds(StatsResult.total_volume, 2 * DEFAULT_PRECISION,
                    SumTrueVolume(StatsMap, DOMAIN StatsMap))

\* the level at price k has the greatest (least) exact price*quantity of m
GreatestVolume(m, k) ==
    \A j \in DOMAIN m : ~WideLess(TrueVolume(m, k), TrueVolume(m, j))
LeastVolume(m, k) ==
    \A j \in DOMAIN m : ~WideLess(TrueVolume(m, j), TrueVolume(m, k))

\* C13 as stated: on a non-empty map the six extrema are the true maximum and
\* minimum of price, quantity and price*quantity over the levels, each
\* attained by a level, with min <= max; on an empty map all eight statistics
\* are zero.
C13_ExtremaAreTrue ==
    book_stats.op = "calculated"
        => IF DOMAIN StatsMap = {}
           THEN \A f \in DOMAIN StatsResult : isZero(StatsResult[f])
           ELSE /\ \E k \in DOMAIN StatsMap :
                     /\ StatsResult.max_price = k
                     /\ \A j \in DOMAIN StatsMap : ~I64Less(k.value, j.value)
                /\ \E k \in DOMAIN StatsMap :
                     /\ StatsResult.min_price = k
                     /\ \A j \in DOMAIN StatsMap : ~I64Less(j.value, k.value)
                /\ \E k \in DOMAIN StatsMap :
                     /\ StatsResult.max_quantity = StatsMap[k]
                     /\ \A j \in DOMAIN StatsMap :
                           ~I64Less(StatsMap[k].value, StatsMap[j].value)
                /\ \E k \in DOMAIN StatsMap :
                     /\ StatsResult.min_quantity = StatsMap[k]
                     /\ \A j \in DOMAIN StatsMap :
                           ~I64Less(StatsMap[j].value, StatsMap[k].value)
                /\ \E k \in DOMAIN StatsMap :
                     /\ Holds(StatsResult.max_volume, 2 * DEFAULT_PRECISION,
                              TrueVolume(StatsMap, k))
                     /\ GreatestVolume(StatsMap, k)
                /\ \E k \in DOMAIN StatsMap :
                     /\ Holds(StatsResult.min_volume, 2 * DEFAULT_PRECISION,
                              TrueVolume(StatsMap, k))
                     /\ LeastVolume(StatsMap, k)
                /\ ~DecLess(StatsResult.max_price, StatsResult.min_price)
                /\ ~DecLess(StatsResult.max_quantity, StatsResult.min_quantity)
                /\ ~DecLess(StatsResult.max_volume, StatsResult.min_volume)

\* ---------------------------------------------------------------- C14
RECURSIVE ReplayedBook(_)
\* the book after initializing from events[1] and applying events[2..n]
ReplayedBook(n) ==
    IF n = 1 THEN initializeOrderBookState(FreshState, order_book_snapshots[1])
    ELSE updateOrderBookState(ReplayedBook(n - 1), order_book_snapshots[n])

\* C14: the end-of-window book statistics of every record equal
\* calculateOrderBookStatistics of the book replayed from the first event up
\* to the event that closes the record's window, whether or not earlier
\* windows emitted a record.
C14_EndStatsOfReplayedBook ==
    \A k \in 1..Len(records) :
        LET book == ReplayedBook(record_window[k] + 2)
        IN  /\ records[k].end_asks
                 = calculateOrderBookStatistics(book.ask_quantity_by_price)
            /\ records[k].end_bids
                 = calculateOrderBookStatistics(book.bid_quantity_by_price)

\* C14 witness: the only record comes from the second window, after a first
\* window without trades, and its end statistics differ from those of a book
\* that skipped the first window's update
C14_Witness ==
    /\ pc = "returned"
    /\ NumEvents = 3
    /\ record_window = << 1 >>
    /\ LET skipped == updateOrderBookState(
                          initializeOrderBookState(FreshState,
                                                   order_book_snapshots[1]),
                          order_book_snapshots[3])
       IN  records[1].end_asks
             # calculateOrderBookStatistics(skipped.ask_quantity_by_price)

\* ------------------------------------------------------------------------
\* The driver: MainLoop::mainLoop, processCycle and processSymbol over the
\* table okx_data_set_record_data, of which db_records keeps the keys in
\* the order of insertion.
MaxCycles == 2
MaxRecords == 2

\* getSymbolsToProcess()
SymbolsToProcess == << BTC_USDT, ETH_USDT >>

Key(sym, dsi, ridx) == [symbol_id |-> sym, data_set_idx |-> dsi, record_idx |-> ridx]

\* what the table may hold when the driver starts
InitialStores ==
    { << >>,
      << Key(BTC_USDT, 0, 0), Key(BTC_USDT, 0, 1) >>,
      << Key(ETH_USDT, 0, 0), Key(ETH_USDT, 1, 0) >> }

InitDriver ==
    /\ pc = "driver"
    /\ CalcIdle
    /\ book_stats = NoStats
    /\ dec = NoDec
    /\ driver = NoDriver
    /\ main_loop = NewMainLoop
    /\ txn = NewTransaction
    /\ db_records \in InitialStores

DriverUnchanged ==
    UNCHANGED << pc, symbol_id, data_set_idx, order_book_snapshots, trades,
                 current_order_book_idx, order_book_state, start_trade_idx,
                 record_idx, start_asks, start_bids, start_timestamp_ms,
                 records, window_trades, record_window, book_call, book_stats,
                 dec, main_loop, txn >>

\* the rows of one symbol
RowsOf(store, sym) == { i \in 1..Len(store) : store[i].symbol_id = sym }

\* ORDER BY data_set_idx DESC, record_idx DESC
RowAfter(a, b) ==
    \/ a.data_set_idx > b.data_set_idx
    \/ a.data_set_idx = b.data_set_idx /\ a.record_idx >= b.record_idx

\* getLastFinalDataSetRecord(symbol_id): the LIMIT 1 row, if there is one
getLastFinalDataSetRecord(store, sym) ==
    IF RowsOf(store, sym) = {} THEN [found |-> FALSE, record |-> Key(sym, 0, 0)]
    ELSE [found |-> TRUE,
          record |-> store[CHOOSE i \in RowsOf(store, sym) :
                             \A j \in RowsOf(store, sym) : RowAfter(store[i], store[j])]]

\* new_data_set_idx = last_record ? last_record->data_set_idx + 1 : 0
NewDataSetIdx_SameAsLast(last_record) ==
    IF last_record.found THEN last_record.record.data_set_idx ELSE 0
NewDataSetIdx(last_record) ==
    IF last_record.found THEN last_record.record.data_set_idx + 1 ELSE 0

RECURSIVE FinalRecordKeys(_, _, _, _)
\* the keys of the n records calculateFinalDataSet returns: record_idx
\* starts at idx and moves by NextRecordIdx
FinalRecordKeys(sym, dsi, idx, n) ==
    IF n = 0 THEN << >>
    ELSE << Key(sym, dsi, idx) >> \o FinalRecordKeys(sym, dsi, NextRecordIdx(idx), n - 1)

\* the ways a call of processSymbol can go before it saves anything
EarlyOutcomes == {"last_record_failed", "too_few_snapshots", "fetch_failed", "calculation_failed"}
Raises(outcome) == outcome \in {"last_record_failed", "fetch_failed", "calculation_failed", "save_failed"}

\* while (!should_stop_) { processCycle(): symbols = getSymbolsToProcess()
MainLoopCycle ==
    /\ pc = "driver"
    /\ driver.pc = "loop"
    /\ ~driver.should_stop
    /\ driver.cycles < MaxCycles
    /\ driver' = [driver EXCEPT !.pc = "cycle", !.symbols = SymbolsToProcess,
                                !.processed = << >>, !.cycles = @ + 1]
    /\ UNCHANGED db_records
    /\ DriverUnchanged

\* if (should_stop_) break;
ProcessCycleBreak ==
    /\ pc = "driver"
    /\ driver.pc = "cycle"
    /\ driver.symbols # << >>
    /\ driver.should_stop
    /\ driver' = [driver EXCEPT !.pc = "loop", !.symbols = << >>]
    /\ UNCHANGED db_records
    /\ DriverUnchanged

\* try { processSymbol(symbol_id); } catch (...) { LOG_ERROR }: the call
\* ends before saving (early), or calculateFinalDataSet returns n records
\* of which the first k are saved, saveFinalDataSetRecord failing on the
\* next one when k < n
ProcessSymbol(early, n, k) ==
    /\ pc = "driver"
    /\ driver.pc = "cycle"
    /\ driver.symbols # << >>
    /\ ~driver.should_stop
    /\ LET sym == Head(driver.symbols)
           last_record == getLastFinalDataSetRecord(db_records, sym)
           new_data_set_idx == NewDataSetIdx(last_record)
           final_records == FinalRecordKeys(sym, new_data_set_idx, 0, n)
           outcome == IF early # "none" THEN early
                      ELSE IF k < n THEN "save_failed" ELSE "saved"
       IN  /\ early # "none" => n = 0 /\ k = 0
           /\ k <= n
           /\ db_records' = db_records \o SubSeq(final_records, 1, k)
           /\ driver' = [driver EXCEPT
                           !.symbols = Tail(@),
                           !.processed = Append(@, sym),
                           !.last = [symbol |-> sym, outcome |-> outcome,
                                     data_set_idx |-> new_data_set_idx,
                                     records |-> n, saved |-> k],
                           !.save_errors = IF outcome = "save_failed"
                                           THEN @ \cup {sym} ELSE @]
    /\ DriverUnchanged

\* the for loop of processCycle is over; mainLoop sleeps
ProcessCycleDone ==
    /\ pc = "driver"
    /\ driver.pc = "cycle"
    /\ driver.symbols = << >>
    /\ driver' = [driver EXCEPT !.pc = "loop"]
    /\ UNCHANGED db_records
    /\ DriverUnchanged

\* the while condition fails: the thread function returns
MainLoopExit ==
    /\ pc = "driver"
    /\ driver.pc = "loop"
    /\ driver.should_stop
    /\ driver' = [driver EXCEPT !.pc = "finished"]
    /\ UNCHANGED db_records
    /\ DriverUnchanged

\* MainLoop::stop() from another thread
Stop ==
    /\ pc = "driver"
    /\ driver.pc \in {"loop", "cycle"}
    /\ ~driver.should_stop
    /\ driver' = [driver EXCEPT !.should_stop = TRUE]
    /\ UNCHANGED db_records
    /\ DriverUnchanged

NextDriver ==
    \/ MainLoopCycle
    \/ ProcessCycleBreak
    \/ \E early \in EarlyOutcomes \cup {"none"}, n \in 0..MaxRecords, k \in 0..MaxRecords :
          ProcessSymbol(early, n, k)
    \/ ProcessCycleDone
    \/ MainLoopExit
    \/ Stop

SpecDriver == InitDriver /\ [][NextDriver]_vars

\* ------------------------------------------------------------------------
\* One DatabaseTransaction and the calls made on it, with a TransactionGuard
\* around it at times. Every call into pqxx may fail.
StatementNames == {"test_select", "test_insert"}

InitTransaction ==
    /\ pc = "transaction"
    /\ CalcIdle
    /\ book_stats = NoStats
    /\ dec = NoDec
    /\ db_records = << >>
    /\ driver = NoDriver
    /\ main_loop = NewMainLoop
    /\ txn = NewTransaction

TransactionUnchanged ==
    UNCHANGED << pc, symbol_id, data_set_idx, order_book_snapshots, trades,
                 current_order_book_idx, order_book_state, start_trade_idx,
                 record_idx, start_asks, start_bids, start_timestamp_ms,
                 records, window_trades, record_window, book_call, book_stats,
                 dec, db_records, driver, main_loop >>

\* isActive()
isActive(t) == ~t.committed /\ ~t.rolled_back

\* validateState() throws std::runtime_error
validateStateThrows(t) == t.committed \/ t.rolled_back

\* rollback() returns at once, without an error
RollbackReturnsEarly(t) == t.committed \/ t.rolled_back

Called(t, op, thrown) == [op |-> op, active |-> isActive(t), thrown |-> thrown]

\* the transaction after commit(): <<transaction, what was thrown>>
commit(t, fails) ==
    IF validateStateThrows(t) THEN << t, "runtime_error" >>
    ELSE IF fails THEN << t, "pqxx" >>
    ELSE << [t EXCEPT !.committed = TRUE, !.work = "committed"], "none" >>

\* the transaction after rollback()
rollback(t, fails) ==
    IF RollbackReturnsEarly(t) THEN << t, "none" >>
    ELSE IF fails THEN << t, "pqxx" >>
    ELSE << [t EXCEPT !.rolled_back = TRUE, !.work = "aborted"], "none" >>

\* execute(query) and executeBatch(queries)
TxnExecute(op, fails) ==
    /\ pc = "transaction"
    /\ txn' = [txn EXCEPT !.call =
                 Called(txn, op, IF validateStateThrows(txn) THEN "runtime_error"
                                 ELSE IF fails THEN "pqxx" ELSE "none")]
    /\ TransactionUnchanged

\* prepare(name, query)
TxnPrepare(name, fails) ==
    /\ pc = "transaction"
    /\ txn' = IF validateStateThrows(txn)
              THEN [txn EXCEPT !.call = Called(txn, "prepare", "runtime_error")]
              ELSE IF fails
              THEN [txn EXCEPT !.call = Called(txn, "prepare", "pqxx")]
              ELSE [txn EXCEPT !.prepared_statements = @ \cup {name},
                               !.call = Called(txn, "prepare", "none")]
    /\ TransactionUnchanged

\* clearPreparedStatements()
TxnClearPreparedStatements ==
    /\ pc = "transaction"
    /\ txn' = [txn EXCEPT !.prepared_statements = {},
                          !.call = Called(txn, "clearPreparedStatements", "none")]
    /\ TransactionUnchanged

\* commit()
TxnCommit(fails) ==
    /\ pc = "transaction"
    /\ txn' = [commit(txn, fails)[1] EXCEPT
                 !.call = Called(txn, "commit", commit(txn, fails)[2])]
    /\ TransactionUnchanged

\* rollback()
TxnRollback(fails) ==
    /\ pc = "transaction"
    /\ txn' = [rollback(txn, fails)[1] EXCEPT
                 !.call = Called(txn, "rollback", rollback(txn, fails)[2])]
    /\ TransactionUnchanged

\* TransactionGuard guard(transaction)
GuardEnter ==
    /\ pc = "transaction"
    /\ txn.guard = "none"
    /\ txn' = [txn EXCEPT !.guard = "armed", !.call = NoTxnCall]
    /\ TransactionUnchanged

\* guard.commit(): committed_ is set once transaction_.commit() has returned
GuardCommit(fails) ==
    /\ pc = "transaction"
    /\ txn.guard # "none"
    /\ txn' = [commit(txn, fails)[1] EXCEPT
                 !.guard = IF commit(txn, fails)[2] = "none" THEN "released" ELSE @,
                 !.call = Called(txn, "guard.commit", commit(txn, fails)[2])]
    /\ TransactionUnchanged

\* guard.rollback()
GuardRollback(fails) ==
    /\ pc = "transaction"
    /\ txn.guard # "none"
    /\ txn' = [rollback(txn, fails)[1] EXCEPT
                 !.guard = IF rollback(txn, fails)[2] = "none" THEN "released" ELSE @,
                 !.call = Called(txn, "guard.rollback", rollback(txn, fails)[2])]
    /\ TransactionUnchanged

\* ~TransactionGuard(): rolls back unless committed_
GuardExit(fails) ==
    /\ pc = "transaction"
    /\ txn.guard # "none"
    /\ txn' = IF txn.guard = "released"
              THEN [txn EXCEPT !.guard = "none", !.call = NoTxnCall]
              ELSE [rollback(txn, fails)[1] EXCEPT
                      !.guard = "none",
                      !.call = Called(txn, "~TransactionGuard", rollback(txn, fails)[2])]
    /\ TransactionUnchanged

\* what the function handed to executeInTransaction does with the
\* transaction it receives before it returns or throws
FuncBodies == {"returns", "throws", "commits", "rolls_back"}

\* func(*this): <<transaction, what func threw>>
FuncRun(t, body) ==
    IF body = "returns" THEN << t, "none" >>
    ELSE IF body = "throws" THEN << t, "func" >>
    ELSE IF body = "commits" THEN commit(t, FALSE)
    ELSE rollback(t, FALSE)

\* catch (...) { rollback(); throw; }: an exception leaving rollback()
\* replaces the one being handled
CatchAll(t, caught, rollback_fails) ==
    << rollback(t, rollback_fails)[1],
       IF rollback(t, rollback_fails)[2] = "none" THEN caught
       ELSE rollback(t, rollback_fails)[2] >>

\* the try block after func has run: commit(), then the result is returned
TryCommit(after_func, commit_fails, rollback_fails) ==
    IF after_func[2] # "none"
    THEN CatchAll(after_func[1], after_func[2], rollback_fails)
    ELSE IF commit(after_func[1], commit_fails)[2] # "none"
    THEN CatchAll(commit(after_func[1], commit_fails)[1],
                  commit(after_func[1], commit_fails)[2], rollback_fails)
    ELSE commit(after_func[1], commit_fails)

\* what the call recorded: what func did and threw, whether commit() threw,
\* whether the handler's rollback() threw, and what left executeInTransaction
ExecutedIn(t, body, after_func, commit_fails, done) ==
    [op |-> "executeInTransaction", active |-> isActive(t), thrown |-> done[2],
     func |-> body, func_threw |-> after_func[2],
     commit_threw |-> IF after_func[2] # "none" THEN "none"
                      ELSE commit(after_func[1], commit_fails)[2],
     rollback_threw |-> isActive(done[1]) /\ done[2] # "none"]

\* executeInTransaction(func)
ExecuteInTransaction(body, commit_fails, rollback_fails) ==
    /\ pc = "transaction"
    /\ txn' = [TryCommit(FuncRun(txn, body), commit_fails, rollback_fails)[1] EXCEPT
                 !.call = ExecutedIn(txn, body, FuncRun(txn, body), commit_fails,
                                     TryCommit(FuncRun(txn, body), commit_fails,
                                               rollback_fails))]
    /\ TransactionUnchanged

NextTransaction ==
    \/ \E op \in {"execute", "executeBatch"}, fails \in BOOLEAN : TxnExecute(op, fails)
    \/ \E name \in StatementNames, fails \in BOOLEAN : TxnPrepare(name, fails)
    \/ TxnClearPreparedStatements
    \/ \E fails \in BOOLEAN : TxnCommit(fails)
    \/ \E fails \in BOOLEAN : TxnRollback(fails)
    \/ GuardEnter
    \/ \E fails \in BOOLEAN : GuardCommit(fails)
    \/ \E fails \in BOOLEAN : GuardRollback(fails)
    \/ \E fails \in BOOLEAN : GuardExit(fails)
    \/ \E body \in FuncBodies, commit_fails \in BOOLEAN, rollback_fails \in BOOLEAN :
          ExecuteInTransaction(body, commit_fails, rollback_fails)

SpecTransaction == InitTransaction /\ [][NextTransaction]_vars

\* ------------------------------------------------------------------------
\* x was built by parsing and by +, - and * only
BuiltWithoutDivision == \A i \in 1..Len(dec.ops) : dec.ops[i] # "/"

\* C15: for every Decimal x built by parsing or by combining parsed values
\* with +, - and * (negative results such as 0.5 - 1 included),
\* Decimal::fromString(x.toString()) == x.
C15_RoundTrip ==
    (pc = "decimal" /\ BuiltWithoutDivision /\ dec.out.kind \in {"text", "crashed"})
        => (dec.out.kind = "text" /\ ~dec.out.thrown /\ dec.out.eq)

\* ------------------------------------------------------------------------
\* The logical value of a Decimal, kept apart from its stored one: the
\* integer num and the number exp of decimal places, value = num / 10^exp.
RECURSIVE DigitsNumber(_, _)
DigitsNumber(s, acc) ==
    IF s = << >> THEN acc
    ELSE DigitsNumber(Tail(s), IF IsDigit(Head(s)) THEN acc * 10 + DigitVal(Head(s)) ELSE acc)

ExactOfString(str) ==
    LET point == FindPoint(str)
        magnitude == DigitsNumber(str, 0)
    IN  [num |-> IF str # << >> /\ str[1] = "-" THEN -magnitude ELSE magnitude,
         exp |-> IF point = 0 THEN 0 ELSE Len(str) - point]

ExactApply(op, a, b) ==
    LET e == Max(a.exp, b.exp)
        an == a.num * 10^(e - a.exp)
        bn == b.num * 10^(e - b.exp)
    IN  IF op = "*" THEN [num |-> a.num * b.num, exp |-> a.exp + b.exp]
        ELSE IF op = "+" THEN [num |-> an + bn, exp |-> e]
        ELSE [num |-> an - bn, exp |-> e]

RECURSIVE ExactFold(_, _, _)
ExactFold(acc, ops, b) ==
    IF ops = << >> THEN acc
    ELSE ExactFold(ExactApply(Head(ops), acc, b), Tail(ops), b)

\* the logical values of the operands x and y
ExactX == ExactFold(ExactOfString(dec.left.str), dec.ops, ExactOfString(dec.right.str))
ExactY == ExactOfString(dec.right.str)
ExactEq(a, b) ==
    a.num * 10^(Max(a.exp, b.exp) - a.exp) = b.num * 10^(Max(a.exp, b.exp) - b.exp)

\* C16: Decimals of equal logical value compare equal whatever the way they
\* were derived (1.5 + 2.5 == 4.0) and whatever precision they are stored
\* with, and exactly one of x < y, x == y, x > y holds.
C16_EqualValuesCompareEqual ==
    (pc = "decimal" /\ BuiltWithoutDivision /\ dec.out.kind = "compare")
        => /\ ExactEq(ExactX, ExactY) => dec.out.eq
           /\ \/ dec.out.eq /\ ~dec.out.less /\ ~dec.out.greater
              \/ ~dec.out.eq /\ dec.out.less /\ ~dec.out.greater
              \/ ~dec.out.eq /\ ~dec.out.less /\ dec.out.greater

\* C17: dividing any Decimal by a Decimal whose value is zero fails with an
\* error, for operator/ and operator/= alike and whatever the dividend and
\* the two precisions are; on failure neither operand is modified.
C17_DivisionByZeroFails ==
    (pc = "decimal" /\ dec.out.kind \in {"quotient", "assigned"} /\ ExactY.num = 0)
        => /\ dec.out.thrown
           /\ dec.x = dec.out.dividend
           /\ dec.y = dec.out.divisor

\* x /= y has failed for a non-zero x and a zero y of another precision
C17_Witness ==
    /\ pc = "decimal"
    /\ dec.out.kind = "assigned"
    /\ dec.out.thrown
    /\ ExactY.num = 0
    /\ dec.y.precision = 0
    /\ dec.out.dividend.precision = DEFAULT_PRECISION
    /\ ~isZero(dec.out.dividend)

\* ------------------------------------------------------------------------
\* the highest dataset index persisted for a symbol, -1 when it has no row
HighestDataSetIdx(store, sym) ==
    IF RowsOf(store, sym) = {} THEN -1
    ELSE SetMax({ store[i].data_set_idx : i \in RowsOf(store, sym) })

\* a call of processSymbol that came to calculate a batch has just ended
BatchStep ==
    /\ pc = "driver"
    /\ Len(driver'.processed) = Len(driver.processed) + 1
    /\ driver'.last.outcome \in {"saved", "save_failed"}

\* C18: output records are uniquely addressable by (symbol id, dataset
\* index, record index): no two persisted rows share a key, and the dataset
\* index given to a new batch is one more than the highest dataset index
\* already persisted for that symbol, also after a cycle that failed
\* part-way through saving its records.
C18_KeysNeverReused ==
    /\ [](\A i, j \in 1..Len(db_records) : db_records[i] = db_records[j] => i = j)
    /\ [][BatchStep =>
            /\ driver'.last.data_set_idx
                 = HighestDataSetIdx(db_records, driver'.last.symbol) + 1
            /\ \A i \in (Len(db_records) + 1)..Len(db_records') :
                 /\ db_records'[i].symbol_id = driver'.last.symbol
                 /\ db_records'[i].data_set_idx = driver'.last.data_set_idx]_vars

\* a batch has been saved for a symbol of which an earlier batch was only
\* saved in part
C18_Witness ==
    /\ pc = "driver"
    /\ driver.last.outcome = "saved"
    /\ driver.last.saved = MaxRecords
    /\ driver.last.symbol \in driver.save_errors
    /\ driver.last.data_set_idx >= 1
    /\ \E i \in RowsOf(db_records, driver.last.symbol) :
         db_records[i].data_set_idx = driver.last.data_set_idx - 1

\* C19: an error raised while processing one symbol does not terminate the
\* driver: nothing of that symbol's batch is saved in that cycle, the
\* remaining symbols of the same cycle are still processed, and the loop
\* continues with later cycles until a stop is requested.
C19_ErrorSkipsOnlyThatSymbol ==
    pc = "driver" =>
        /\ Raises(driver.last.outcome) => driver.last.saved = 0
        /\ (driver.pc = "loop" /\ driver.cycles > 0 /\ ~driver.should_stop)
              => driver.processed = SymbolsToProcess
        /\ driver.pc = "finished" => driver.should_stop

\* ------------------------------------------------------------------------
\* C20: a DatabaseTransaction is active from construction until its first
\* commit or rollback; once committed or rolled back it is never active
\* again, is never both committed and rolled back, and every later call of
\* execute, commit or rollback on it fails with a runtime error.
C20_FinishedTransactionRejectsCalls ==
    pc = "transaction" =>
        /\ isActive(txn) <=> txn.work = "open"
        /\ ~(txn.committed /\ txn.rolled_back)
        /\ (txn.call.op \in {"execute", "commit", "rollback"} /\ ~txn.call.active)
              => txn.call.thrown = "runtime_error"

\* ------------------------------------------------------------------------
\* C21: executeInTransaction on an active transaction commits and returns
\* the function's result when the function returns normally (and commit()
\* does not throw), and rolls back and rethrows when the function or the
\* commit throws; a TransactionGuard leaving scope without guard.commit()
\* rolls an active transaction back; in no case is the transaction left
\* active afterwards.
C21_ScopedTransactionEnds ==
    pc = "transaction" =>
        /\ (txn.call.op = "executeInTransaction" /\ txn.call.active) =>
              /\ (txn.call.func_threw = "none" /\ txn.call.commit_threw = "none")
                    => (txn.committed /\ txn.call.thrown = "none")
              /\ txn.call.func_threw # "none"
                    => (txn.rolled_back /\ txn.call.thrown = txn.call.func_threw)
              /\ txn.call.commit_threw # "none"
                    => (txn.rolled_back /\ txn.call.thrown = txn.call.commit_threw)
              /\ ~isActive(txn)
        /\ (txn.call.op = "~TransactionGuard" /\ txn.call.active) =>
              (txn.rolled_back /\ ~isActive(txn))

\* ------------------------------------------------------------------------
\* C22: within one calculateFinalDataSet call the book is untouched before
\* the first pass (AwaitingSnapshot), after i >= 1 passes it is the book
\* initialized once from events[0] with events[1], ..., events[i] applied
\* once each in list order, one per pass, never re-initialized or cleared
\* (Reconstructing), and a call on n >= 2 events that returns has applied
\* all of events[1..n-1] (Done).
C22_BookLifecycle ==
    pc \in {"loop", "returned", "thrown"} =>
        /\ current_order_book_idx = 0 => order_book_state = FreshState
        /\ current_order_book_idx >= 1 =>
              /\ order_book_state.initialized
              /\ order_book_state = ReplayedBook(current_order_book_idx + 1)
        /\ (pc = "returned" /\ NumEvents >= 2) =>
              current_order_book_idx = NumEvents - 1

\* C22 witness: a call on three events has returned; its book is the replay
\* of all three and is not what a re-initialization from the second event,
\* or a skipped first update, would have left
C22_Witness ==
    /\ pc = "returned"
    /\ NumEvents = 3
    /\ current_order_book_idx = 2
    /\ order_book_state = ReplayedBook(3)
    /\ order_book_state # updateOrderBookState(
                              initializeOrderBookState(FreshState,
                                                       order_book_snapshots[2]),
                              order_book_snapshots[3])
    /\ order_book_state # updateOrderBookState(
                              initializeOrderBookState(FreshState,
                                                       order_book_snapshots[1]),
                              order_book_snapshots[3])

\* ------------------------------------------------------------------------
\* C23: a call of initializeOrderBookState on a state that is already
\* initialized does not complete as an initialization: it never returns
\* normally having replaced (or kept) the book.
C23_SecondInitializeFlagged ==
    [][(pc = "book" /\ book_call.op = "initialize" /\ order_book_state.initialized)
          => book_call'.op # "initialized"]_vars

\* ------------------------------------------------------------------------
\* the start statistics of a side change in this step
StartChanges(side) ==
    IF side = "asks" THEN start_asks' # start_asks ELSE start_bids' # start_bids
StartOf(side) == IF side = "asks" THEN start_asks ELSE start_bids
RecordStart(rec, side) == IF side = "asks" THEN rec.start_asks ELSE rec.start_bids

\* C24: within a call the start statistics of a side are written only in a
\* pass that finds the side's captured total volume still zero, so once they
\* hold a non-zero total volume they stay as they are, and all records
\* emitted from then on carry the same start statistics for that side.
C24_StartStatsCapturedOnce ==
    /\ [][\A side \in {"asks", "bids"} :
            (pc = "loop" /\ StartChanges(side)) => isZero(StartOf(side).total_volume)]_vars
    /\ [](\A side \in {"asks", "bids"} : \A k \in 1..Len(records) : \A l \in k..Len(records) :
            ~isZero(RecordStart(records[k], side).total_volume)
                => RecordStart(records[l], side) = RecordStart(records[k], side))

\* C24 witness: two records of one call carry the same non-zero ask start
\* statistics although the asks of the book differed when the second window
\* opened
C24_Witness ==
    /\ pc = "returned"
    /\ Len(records) = 2
    /\ ~isZero(records[1].start_asks.total_volume)
    /\ records[2].start_asks = records[1].start_asks
    /\ calculateOrderBookStatistics(ReplayedBook(2).ask_quantity_by_price).total_volume
         # records[1].start_asks.total_volume

\* ------------------------------------------------------------------------
\* the end of the window of the pass that ran last (current_order_book_idx >= 1)
LastEndTs == order_book_snapshots[current_order_book_idx + 1].timestamp_ms

\* C25: after a pass has called calculateTradeStatistics the cursor is past
\* every trade below the window's end (the skipped and the counted ones) and
\* no trade before the cursor is at or after the end, so it rests on the first
\* trade with timestamp >= endTs; from pass to pass the cursor never moves
\* backwards and it never exceeds the number of trades.
C25_CursorAdvances ==
    /\ [](current_order_book_idx >= 1 =>
            /\ \A j \in 1..Len(trades) :
                  trades[j].timestamp_ms < LastEndTs => j <= start_trade_idx
            /\ \A j \in 1..Len(trades) :
                  trades[j].timestamp_ms >= LastEndTs => j > start_trade_idx
            /\ start_trade_idx <= Len(trades))
    /\ [][pc = "loop" => start_trade_idx' >= start_trade_idx]_vars

\* ------------------------------------------------------------------------
\* the event that closes the window in which record k was emitted
ClosingEvent(k) == order_book_snapshots[record_window[k] + 2]

PassCall ==
    calculateTradeStatistics(
        trades, order_book_snapshots[current_order_book_idx + 1].timestamp_ms,
        order_book_snapshots[current_order_book_idx + 2].timestamp_ms,
        start_trade_idx)
PassFirstTrade == trades[SetMin(PassCall.counted)]
PassPrices == { ToInt(trades[j].price.value) : j \in PassCall.counted }
PassRuns ==
    /\ pc = "loop"
    /\ current_order_book_idx' = current_order_book_idx + 1
    /\ PassCall.counted # {}

\* C27: in every pass whose window holds trades, zero ids and zero prices
\* included, calculateTradeStatistics returns the first counted trade's id,
\* timestamp and price as start_trade_id, start_timestamp_ms and open_price,
\* and the maximum and minimum of the counted prices as high_price and
\* low_price.
C27_ZeroIsAValue ==
    [][PassRuns =>
         /\ PassCall.stats.start_trade_id = PassFirstTrade.trade_id
         /\ PassCall.stats.start_timestamp_ms = PassFirstTrade.timestamp_ms
         /\ PassCall.stats.open_price = PassFirstTrade.price
         /\ PassCall.stats.high_price
               = Dec(I64(SetMax(PassPrices)), DEFAULT_PRECISION)
         /\ PassCall.stats.low_price
               = Dec(I64(SetMin(PassPrices)), DEFAULT_PRECISION)]_vars

\* ------------------------------------------------------------------------
\* the book the pending pass captures its start statistics from
PassBook ==
    StateAtIteration(order_book_state,
                     order_book_snapshots[current_order_book_idx + 1])
\* the pending pass runs one side's capture block and leaves a non-zero total
CapturedNonZero(before, after) ==
    /\ pc = "loop"
    /\ current_order_book_idx' = current_order_book_idx + 1
    /\ isZero(before.total_volume)
    /\ ~isZero(after.total_volume)

\* C28: whenever a side's start statistics are captured with non-zero total
\* volume, the eight captured values are what calculateOrderBookStatistics
\* returns for that side's map of the book before the window's update.
C28_InlineStartEqualsHelper ==
    [][/\ CapturedNonZero(start_asks, start_asks') =>
            start_asks' = calculateOrderBookStatistics(PassBook.ask_quantity_by_price)
       /\ CapturedNonZero(start_bids, start_bids') =>
            start_bids' = calculateOrderBookStatistics(PassBook.bid_quantity_by_price)]_vars

\* ------------------------------------------------------------------------
\* MainLoop::start, MainLoop::stop and the threads running MainLoop::mainLoop.
\* Callers of start() and stop() advance one statement at a time; running_
\* and should_stop_ are atomics, so each read and each write is one step. A
\* worker is "testing" the while condition, inside a "cycle" (processCycle and
\* the sleeps), or "finished".
InitThreads ==
    /\ pc = "threads"
    /\ CalcIdle
    /\ OutsideIdle

ThreadsUnchanged ==
    UNCHANGED << pc, symbol_id, data_set_idx, order_book_snapshots, trades,
                 current_order_book_idx, order_book_state, start_trade_idx,
                 record_idx, start_asks, start_bids, start_timestamp_ms,
                 records, window_trades, record_window, book_call, book_stats,
                 dec, db_records, driver, txn >>

\* the process is alive and caller c is at the given statement
CallerAt(c, at) ==
    /\ pc = "threads"
    /\ ~main_loop.terminated
    /\ main_loop.callers[c].at = at

\* caller c moves to another statement
CallerTo(ml, c, at) == [ml EXCEPT !.callers[c].at = at]

\* std::thread(&MainLoop::mainLoop, this): a new thread enters mainLoop
Launched(ml, c) ==
    [ml EXCEPT !.workers = Append(@, [at |-> "testing", stop_requested |-> FALSE]),
               !.callers[c].launched = Len(ml.workers) + 1]

\* should_stop_ = true reaches every worker that has not finished
StopRequested(workers) ==
    [w \in 1..Len(workers) |->
        IF workers[w].at = "finished" THEN workers[w]
        ELSE [workers[w] EXCEPT !.stop_requested = TRUE]]

\* start(): if (running_) { LOG_ERROR(...); return; }
StartEnter(c) ==
    /\ CallerAt(c, "outside")
    /\ main_loop' = IF main_loop.running THEN main_loop
                    ELSE CallerTo(main_loop, c, "connect")
    /\ ThreadsUnchanged

\* db_connection_->connect() returns, or throws and start() rethrows
StartConnect(c, connected) ==
    /\ CallerAt(c, "connect")
    /\ main_loop' = CallerTo(main_loop, c,
                             IF connected THEN "set_running" ELSE "outside")
    /\ ThreadsUnchanged

\* running_ = true
StartSetRunning(c) ==
    /\ CallerAt(c, "set_running")
    /\ main_loop' = CallerTo([main_loop EXCEPT !.running = TRUE], c, "clear_stop")
    /\ ThreadsUnchanged

\* should_stop_ = false
StartClearStop(c) ==
    /\ CallerAt(c, "clear_stop")
    /\ main_loop' = CallerTo([main_loop EXCEPT !.should_stop = FALSE], c, "launch")
    /\ ThreadsUnchanged

\* the right-hand side of main_thread_ = std::thread(&MainLoop::mainLoop, this)
StartLaunch(c) ==
    /\ CallerAt(c, "launch")
    /\ Len(main_loop.workers) < MaxWorkers
    /\ main_loop' = CallerTo(Launched(main_loop, c), c, "assign")
    /\ ThreadsUnchanged

\* what joinable() can give inside the move assignment: main_thread_ is a
\* plain std::thread, so while another caller is inside the same assignment
\* the read races with that write and may give either answer
JoinableReads(ml, c) ==
    IF \E o \in Callers \ {c} : ml.callers[o].at = "assign"
    THEN BOOLEAN
    ELSE { ml.main_thread # 0 }

\* the move assignment to main_thread_: std::terminate() when main_thread_ is
\* joinable, which it stays from the first assignment on (no join, no detach)
StartAssign(c, joinable) ==
    /\ CallerAt(c, "assign")
    /\ main_loop' =
         IF joinable
         THEN [main_loop EXCEPT !.terminated = TRUE]
         ELSE CallerTo([main_loop EXCEPT
                           !.main_thread = main_loop.callers[c].launched],
                       c, "outside")
    /\ ThreadsUnchanged

\* stop(): if (!running_) return;
StopEnter(c) ==
    /\ CallerAt(c, "outside")
    /\ main_loop' = IF main_loop.running
                    THEN CallerTo(main_loop, c, "request_stop")
                    ELSE main_loop
    /\ ThreadsUnchanged

\* should_stop_ = true
StopRequest(c) ==
    /\ CallerAt(c, "request_stop")
    /\ main_loop' = CallerTo([main_loop EXCEPT
                                !.should_stop = TRUE,
                                !.workers = StopRequested(@)],
                             c, "clear_running")
    /\ ThreadsUnchanged

\* running_ = false
StopClearRunning(c) ==
    /\ CallerAt(c, "clear_running")
    /\ main_loop' = CallerTo([main_loop EXCEPT !.running = FALSE], c, "outside")
    /\ ThreadsUnchanged

\* worker w is alive at the given place
WorkerAt(w, at) ==
    /\ pc = "threads"
    /\ ~main_loop.terminated
    /\ main_loop.workers[w].at = at

\* while (!should_stop_)
WorkerTest(w) ==
    /\ WorkerAt(w, "testing")
    /\ main_loop' = [main_loop EXCEPT
                       !.workers[w].at =
                           IF main_loop.should_stop THEN "finished" ELSE "cycle"]
    /\ ThreadsUnchanged

\* processCycle() and the sleeps of one pass of the while loop
WorkerCycle(w) ==
    /\ WorkerAt(w, "cycle")
    /\ main_loop' = [main_loop EXCEPT !.workers[w].at = "testing"]
    /\ ThreadsUnchanged

NextThreads ==
    \/ \E c \in Callers : StartEnter(c)
    \/ \E c \in Callers, connected \in BOOLEAN : StartConnect(c, connected)
    \/ \E c \in Callers : StartSetRunning(c)
    \/ \E c \in Callers : StartClearStop(c)
    \/ \E c \in Callers : StartLaunch(c)
    \/ \E c \in Callers : \E joinable \in JoinableReads(main_loop, c) :
          StartAssign(c, joinable)
    \/ \E c \in Callers : StopEnter(c)
    \/ \E c \in Callers : StopRequest(c)
    \/ \E c \in Callers : StopClearRunning(c)
    \/ \E w \in 1..Len(main_loop.workers) : WorkerTest(w)
    \/ \E w \in 1..Len(main_loop.workers) : WorkerCycle(w)

SpecThreads == InitThreads /\ [][NextThreads]_vars

\* the workers inside a processing cycle
InCycle == { w \in 1..Len(main_loop.workers) : main_loop.workers[w].at = "cycle" }

\* C29: at any time at most one worker thread executes processing cycles,
\* and a worker that a stop() has told to stop never begins another cycle, so
\* a later start() does not revive it.
C29_AtMostOneWorker ==
    /\ [](Cardinality(InCycle) <= 1)
    /\ [][\A w \in 1..Len(main_loop.workers) :
            main_loop.workers[w].stop_requested
            => ~(main_loop.workers[w].at = "testing"
                 /\ main_loop'.workers[w].at = "cycle")]_vars

\* ------------------------------------------------------------------------
\* the precisions getScaleFactor is asked for by the operations on the two
\* operands: the constructors and toString (the operand's own precision),
\* normalizePrecision (the distance to the larger precision) and operator*
\* (the excess of the summed precision over MAX_PRECISION)
OperandPrecisions == { dec.x.precision, dec.y.precision }
NormalizePrecisions ==
    { Max(dec.x.precision, dec.y.precision) - p : p \in OperandPrecisions }
MultiplyPrecisions ==
    { p + q - MAX_PRECISION : p \in OperandPrecisions, q \in OperandPrecisions }
ScalePrecisions ==
    OperandPrecisions \cup NormalizePrecisions \cup MultiplyPrecisions

\* C30: every precision the operations on the current operands pass to
\* getScaleFactor is either rejected by its range check (below 0 or above
\* MAX_PRECISION) or the index of an entry of the scaleFactors table, so no
\* accepted precision reads past the end of the table.
C30_AcceptedPrecisionInTable ==
    pc = "decimal" =>
        \A p \in ScalePrecisions :
            /\ ScaleFactorAccepted(p) <=> (0 <= p /\ p <= MAX_PRECISION)
            /\ ScaleFactorAccepted(p) => p \in DOMAIN scaleFactors

====
